---------------------------- MODULE Spec2Model ----------------------------
(***************************************************************************)
(* Model of the micro-insurance quote pipeline (src/src/pricing):          *)
(* risk estimation -> select_template -> build_offer (with the budget-fit  *)
(* search of apply_budget_constraint) -> compute_quote's response.         *)
(*                                                                         *)
(* Number representation (Python floats are modelled in fixed point):      *)
(*   money (plafond, franchise, premium, budget)   integer centimes        *)
(*   assets_value_tnd, expected_cost               integer TND             *)
(*   p_claim, uncertainty_score, factors           thousandths (milli)     *)
(*   base_expense_margin                           percent                 *)
(*   selector scores                               tenths                  *)
(* Products are divided with \div as soon as they are formed, so every     *)
(* intermediate stays inside TLC's 32-bit integers.                        *)
(*                                                                         *)
(* An optional value (Python None / absent dict key) is the empty set, a   *)
(* present value v is the singleton {v}.                                   *)
(***************************************************************************)
EXTENDS Integers, Sequences, FiniteSets, TLC

VARIABLES
    pc,         \* position of the computation
    profile,    \* the profile dict handed to the selector and the engine
    risk,       \* the risk dict (p_claim, expected_cost, uncertainty_score, hint)
    env,        \* artifacts on disk and what the estimators returned
    decision,   \* SelectionDecision of select_template
    search,     \* locals of apply_budget_constraint's loop
    offer,      \* engine.Offer returned by build_offer
    resp,       \* QuoteResponse returned by compute_quote
    error,      \* the exception that left compute_quote / build_offer, if any
    entry,      \* the function the caller entered: "compute_quote",
                \* "build_offer" (select_template + build_offer on a profile
                \* dict, as tests/test_offer_local.py) or "apply_budget_constraint"
    call,       \* a call of one helper function: its name, argument and result
    models,     \* service.py module globals _FREQ_MODEL / _SEV_MODEL and the
                \* loads performed so far in the process
    threads,    \* position of each request thread inside compute_quote
    db          \* the rows of the table quote_requests, by id

vars == <<pc, profile, risk, env, decision, search, offer, resp, error, entry,
          call, models, threads, db>>

----------------------------------------------------------------------------
\* Generic helpers

None == {}
Some(v) == {v}
IsNone(o) == o = {}
Get(o) == CHOOSE v \in o : TRUE

TND(x) == x * 100          \* dinars -> centimes

Max2(a, b) == IF a >= b THEN a ELSE b
Min2(a, b) == IF a <= b THEN a ELSE b

\* engine._clamp on finite numbers: max(lo, min(hi, x))
Clamp(x, lo, hi) == Max2(lo, Min2(hi, x))

Contains(seq, x) == \E i \in 1..Len(seq) : seq[i] = x

----------------------------------------------------------------------------
\* Floats as the estimators return them: a finite value or NaN / +inf / -inf

Fin(v) == [k |-> "fin", v |-> v]
NaN    == [k |-> "nan", v |-> 0]
PInf   == [k |-> "pinf", v |-> 0]
NInf   == [k |-> "ninf", v |-> 0]

IsFinite(x) == x.k = "fin"

\* IEEE / Python  a < b : every comparison with NaN is False
FLess(a, b) ==
    CASE a.k = "nan" \/ b.k = "nan" -> FALSE
      [] a.k = "ninf" -> b.k # "ninf"
      [] a.k = "pinf" -> FALSE
      [] b.k = "pinf" -> TRUE
      [] b.k = "ninf" -> FALSE
      [] OTHER -> a.v < b.v

\* Python's builtin min(a, b) / max(a, b): the first argument is kept unless
\* the second compares strictly smaller / greater
PyMin(a, b) == IF FLess(b, a) THEN b ELSE a
PyMax(a, b) == IF FLess(a, b) THEN b ELSE a

----------------------------------------------------------------------------
\* templates.py : the static product templates, in declaration order

TemplateOrder == <<"T1_ESSENTIEL", "T2_PLUS", "T3_NIGHT">>

TemplateIds == {TemplateOrder[i] : i \in 1..Len(TemplateOrder)}

TEMPLATES ==
    [tid \in TemplateIds |->
        CASE tid = "T1_ESSENTIEL" ->
               [id |-> "T1_ESSENTIEL",
                name |-> "Commerce Essentiel",
                coverages |-> <<"fire", "theft_basic", "water_damage">>,
                activity_in |-> Some({"grocery", "clothing", "other"}),
                open_at_night_required |-> None,
                assets_min_tnd |-> None,
                assets_max_tnd |-> Some(60000),
                plafond_base_tnd |-> TND(30000),
                plafond_min_tnd |-> TND(15000),
                plafond_max_tnd |-> TND(50000),
                franchise_base_tnd |-> TND(1000),
                franchise_min_tnd |-> TND(500),
                franchise_max_tnd |-> TND(3000),
                base_expense_margin |-> 35]
          [] tid = "T2_PLUS" ->
               [id |-> "T2_PLUS",
                name |-> "Commerce Plus",
                coverages |-> <<"fire", "theft_extended", "water_damage",
                                "business_interruption">>,
                activity_in |-> Some({"pharmacy", "electronics"}),
                open_at_night_required |-> None,
                assets_min_tnd |-> Some(30000),
                assets_max_tnd |-> None,
                plafond_base_tnd |-> TND(60000),
                plafond_min_tnd |-> TND(40000),
                plafond_max_tnd |-> TND(120000),
                franchise_base_tnd |-> TND(2000),
                franchise_min_tnd |-> TND(1000),
                franchise_max_tnd |-> TND(6000),
                base_expense_margin |-> 40]
          [] OTHER ->
               [id |-> "T3_NIGHT",
                name |-> "Night & Cash Risk",
                coverages |-> <<"theft_extended", "cash_on_premises", "vandalism">>,
                activity_in |-> None,
                open_at_night_required |-> Some(TRUE),
                assets_min_tnd |-> None,
                assets_max_tnd |-> None,
                plafond_base_tnd |-> TND(25000),
                plafond_min_tnd |-> TND(15000),
                plafond_max_tnd |-> TND(60000),
                franchise_base_tnd |-> TND(1500),
                franchise_min_tnd |-> TND(800),
                franchise_max_tnd |-> TND(5000),
                base_expense_margin |-> 45]]

----------------------------------------------------------------------------
\* rules.py : eligibility and the deterministic selector

\* any(k in activity for k in ["pharm", "electron", "bijou", "jewel"]),
\* evaluated on the activities of the model's input domain
HighValueActivity(activity) ==
    activity \in {"pharmacy", "electronics", "bijouterie", "jewelry"}

_eligible(t, prof) ==
    /\ IsNone(t.activity_in) \/ prof.activity_type \in Get(t.activity_in)
    /\ IsNone(t.open_at_night_required)
          \/ prof.open_at_night = Get(t.open_at_night_required)
    /\ IsNone(t.assets_min_tnd) \/ ~(prof.assets_value_tnd < Get(t.assets_min_tnd))
    /\ IsNone(t.assets_max_tnd) \/ ~(prof.assets_value_tnd > Get(t.assets_max_tnd))

\* candidates, in the iteration order of the TEMPLATES dict
Candidates(prof) ==
    SelectSeq(TemplateOrder, LAMBDA tid : _eligible(TEMPLATES[tid], prof))

CandidateSet(prof) == {tid \in TemplateIds : _eligible(TEMPLATES[tid], prof)}

\* the id select_template returns when no template is eligible
FallbackTemplateId == "T1_ESS"

\* the rules of select_template, as guards on the scores dict
HintFires(prof, rk) ==
    /\ ~IsNone(rk.cluster_hint_template_id)
    /\ Get(rk.cluster_hint_template_id) \in CandidateSet(prof)
NightFires(prof) == prof.open_at_night /\ "T3_NIGHT" \in CandidateSet(prof)
ExposureFires(prof) ==
    /\ prof.assets_value_tnd >= 80000 \/ HighValueActivity(prof.activity_type)
    /\ "T2_PLUS" \in CandidateSet(prof)
FrequencyFires(rk) == rk.p_claim > 150
UncertaintyFires(rk) == rk.uncertainty_score > 700

\* (variant: the night rule adds 1.0)
Score_NightBonusLow(tid, prof, rk) ==
      (IF HintFires(prof, rk) /\ Get(rk.cluster_hint_template_id) = tid THEN 15 ELSE 0)
    + (IF NightFires(prof) /\ tid = "T3_NIGHT" THEN 10 ELSE 0)
    + (IF ExposureFires(prof) /\ tid = "T2_PLUS" THEN 15 ELSE 0)
    + (IF FrequencyFires(rk) /\ tid \in {"T2_PLUS", "T3_NIGHT"} THEN 4 ELSE 0)

\* final score of one candidate, in tenths
Score(tid, prof, rk) ==
      (IF HintFires(prof, rk) /\ Get(rk.cluster_hint_template_id) = tid THEN 15 ELSE 0)
    + (IF NightFires(prof) /\ tid = "T3_NIGHT" THEN 20 ELSE 0)
    + (IF ExposureFires(prof) /\ tid = "T2_PLUS" THEN 15 ELSE 0)
    + (IF FrequencyFires(rk) /\ tid \in {"T2_PLUS", "T3_NIGHT"} THEN 4 ELSE 0)
    + (IF UncertaintyFires(rk) /\ tid = "T1_ESS" THEN 3 ELSE 0)

\* scores.items(): one (tid, score) pair per candidate, in insertion order
Scores(prof, rk) ==
    LET c == Candidates(prof)
    IN  [i \in 1..Len(c) |-> [tid |-> c[i], score |-> Score(c[i], prof, rk)]]

\* (variant: the last of the items with the greatest score)
MaxItem_Last(items) ==
    LET i == CHOOSE i \in 1..Len(items) :
                /\ \A j \in 1..Len(items) : items[j].score <= items[i].score
                /\ \A j \in (i + 1)..Len(items) : items[j].score < items[i].score
    IN  items[i]

\* max(items, key=lambda x: x[1]) : the first item, in iteration order, that
\* no other item beats
MaxItem(items) ==
    LET i == CHOOSE i \in 1..Len(items) :
                /\ \A j \in 1..Len(items) : items[j].score <= items[i].score
                /\ \A j \in 1..(i - 1) : items[j].score < items[i].score
    IN  items[i]

\* (variant: the hinted template is taken whether or not it is a candidate)
Chosen_HintFirst(prof, rk) ==
    IF ~IsNone(rk.cluster_hint_template_id)
    THEN Get(rk.cluster_hint_template_id)
    ELSE MaxItem(Scores(prof, rk)).tid

\* chosen = max(scores.items(), key=lambda x: x[1])[0]
Chosen(prof, rk) == MaxItem(Scores(prof, rk)).tid

SummaryReason(tid) ==
    IF tid = "T3_NIGHT" THEN "chosen_night_template"
    ELSE IF tid = "T2_PLUS" THEN "chosen_plus_template"
    ELSE "chosen_essential_template"

\* (variant: the uncertainty rule is applied before the frequency rule)
RuleReasons_UncertaintyFirst(prof, rk) ==
       (IF HintFires(prof, rk)
           THEN <<[code |-> "rule_cluster_profile_hint",
                   arg |-> Get(rk.cluster_hint_template_id)]>>
           ELSE <<>>)
    \o (IF NightFires(prof) THEN <<[code |-> "rule_open_at_night", arg |-> ""]>> ELSE <<>>)
    \o (IF ExposureFires(prof)
           THEN <<[code |-> "rule_high_exposure_assets_or_activity", arg |-> ""]>>
           ELSE <<>>)
    \o (IF UncertaintyFires(rk) THEN <<[code |-> "rule_high_uncertainty", arg |-> ""]>> ELSE <<>>)
    \o (IF FrequencyFires(rk) THEN <<[code |-> "rule_high_frequency", arg |-> ""]>> ELSE <<>>)

RuleReasons(prof, rk) ==
       (IF HintFires(prof, rk)
           THEN <<[code |-> "rule_cluster_profile_hint",
                   arg |-> Get(rk.cluster_hint_template_id)]>>
           ELSE <<>>)
    \o (IF NightFires(prof) THEN <<[code |-> "rule_open_at_night", arg |-> ""]>> ELSE <<>>)
    \o (IF ExposureFires(prof)
           THEN <<[code |-> "rule_high_exposure_assets_or_activity", arg |-> ""]>>
           ELSE <<>>)
    \o (IF FrequencyFires(rk) THEN <<[code |-> "rule_high_frequency", arg |-> ""]>> ELSE <<>>)
    \o (IF UncertaintyFires(rk) THEN <<[code |-> "rule_high_uncertainty", arg |-> ""]>> ELSE <<>>)

select_template(prof, rk) ==
    IF Candidates(prof) = <<>>
    THEN [template_id |-> FallbackTemplateId,
          reasons |-> <<[code |-> "fallback_no_candidate", arg |-> ""]>>,
          candidates |-> <<>>]
    ELSE [template_id |-> Chosen(prof, rk),
          reasons |-> RuleReasons(prof, rk)
                        \o <<[code |-> SummaryReason(Chosen(prof, rk)), arg |-> ""]>>,
          candidates |-> Candidates(prof)]

----------------------------------------------------------------------------
\* engine.py : limit, deductible, premium

SearchMaxIter == 30        \* for _ in range(30)

_min_premium_for_template(t) ==
    IF t.id = "T2_PLUS" THEN TND(500)
    ELSE IF t.id = "T3_NIGHT" THEN TND(550)
    ELSE TND(250)

compute_plafond(prof, t) ==
    Clamp(Max2(t.plafond_base_tnd, TND(prof.assets_value_tnd) \div 2),
          t.plafond_min_tnd, t.plafond_max_tnd)

\* int(bool(flag)) of the three security features, summed
SafetyScore(prof) ==
      (IF prof.security_alarm THEN 1 ELSE 0)
    + (IF prof.security_camera THEN 1 ELSE 0)
    + (IF prof.fire_extinguisher THEN 1 ELSE 0)

\* (variant: each security feature adds 6% to the deductible)
FranchiseRaw_Surcharge(prof, t, rk) ==
    LET f0 == (t.franchise_base_tnd * (100 + 6 * SafetyScore(prof))) \div 100
        f1 == IF rk.p_claim > 150 THEN (f0 * 115) \div 100 ELSE f0
        f2 == IF rk.uncertainty_score > 700 THEN (f1 * 120) \div 100 ELSE f1
    IN  f2

\* the deductible before the final clamp
FranchiseRaw(prof, t, rk) ==
    LET f0 == (t.franchise_base_tnd * (100 - 6 * SafetyScore(prof))) \div 100
        f1 == IF rk.p_claim > 150 THEN (f0 * 115) \div 100 ELSE f0
        f2 == IF rk.uncertainty_score > 700 THEN (f1 * 120) \div 100 ELSE f1
    IN  f2

compute_franchise(prof, t, rk) ==
    Clamp(FranchiseRaw(prof, t, rk), t.franchise_min_tnd, t.franchise_max_tnd)

\* 1 / (1 + franchise / 2000), in thousandths
DeductibleFactor(franchise) == (TND(2000) * 1000) \div (TND(2000) + franchise)

\* clamp(1 + (plafond - base) / max(base, 1) * 0.10, 0.9, 1.2), in thousandths
LimitFactor(t, plafond) ==
    Clamp(1000 + ((plafond - t.plafond_base_tnd) * 100)
                     \div Max2(t.plafond_base_tnd, TND(1)),
          900, 1200)

\* (variant: the floor is not applied)
FloorPremium_NoFloor(premium_raw, min_premium) == premium_raw

\* max(premium_raw, min_premium)
FloorPremium(premium_raw, min_premium) == Max2(premium_raw, min_premium)

compute_premium(t, rk, plafond, franchise) ==
    LET base_expected_loss == (rk.p_claim * rk.expected_cost) \div 10
        deductible_factor  == DeductibleFactor(franchise)
        limit_factor       == LimitFactor(t, plafond)
        expected_loss_adj  ==
            (((base_expected_loss * deductible_factor) \div 1000) * limit_factor) \div 1000
        fixed_fee          == TND(120)
        premium_raw        ==
            (expected_loss_adj * (100 + t.base_expense_margin)) \div 100 + fixed_fee
        min_premium        == _min_premium_for_template(t)
    IN  [premium |-> FloorPremium(premium_raw, min_premium),
         breakdown |->
            [p_claim |-> rk.p_claim,
             expected_cost |-> rk.expected_cost,
             base_expected_loss |-> base_expected_loss,
             deductible_factor |-> deductible_factor,
             limit_factor |-> limit_factor,
             expected_loss_adjusted |-> expected_loss_adj,
             expense_margin |-> t.base_expense_margin,
             fixed_fee |-> fixed_fee,
             min_premium_applied |-> IF premium_raw < min_premium THEN 1 ELSE 0,
             min_premium_value |-> min_premium,
             premium_raw |-> premium_raw]]

----------------------------------------------------------------------------
\* engine.py : apply_budget_constraint

\* what apply_budget_constraint returns: plafond, franchise, **prem_pack
Adjusted(plafond, franchise, prem_pack, applied, target, unmet, reason) ==
    [plafond |-> plafond,
     franchise |-> franchise,
     premium |-> prem_pack.premium,
     breakdown |-> prem_pack.breakdown,
     budget_applied |-> applied,
     budget_target |-> target,          \* optional key
     budget_unmet |-> unmet,            \* absent key = FALSE
     budget_reason |-> reason]          \* optional key

\* budget = float(budget or 0.0) for a budget that is not None
BudgetValue(prof) == Get(prof.budget_constraint_tnd)

\* (variant: the test against the minimum premium is skipped)
BudgetBelowMin_Skipped(budget, t) == FALSE

\* if budget < min_premium: the budget cannot be met
BudgetBelowMin(budget, t) == budget < _min_premium_for_template(t)

\* the branches before the loop; loop = TRUE when the search has to run
BudgetEntry(prof, t, rk, plafond, franchise) ==
    LET pack == compute_premium(t, rk, plafond, franchise)
        asIs == Adjusted(plafond, franchise, pack, FALSE, None, FALSE, None)
    IN  IF IsNone(prof.budget_constraint_tnd) THEN [loop |-> FALSE, adjusted |-> asIs]
        ELSE IF BudgetValue(prof) <= 0 THEN [loop |-> FALSE, adjusted |-> asIs]
        ELSE IF BudgetBelowMin(BudgetValue(prof), t)
             THEN [loop |-> FALSE,
                   adjusted |-> Adjusted(plafond, franchise, pack, TRUE,
                                         Some(BudgetValue(prof)), TRUE,
                                         Some("budget_below_min_premium"))]
        ELSE IF pack.premium <= BudgetValue(prof) THEN [loop |-> FALSE, adjusted |-> asIs]
        ELSE [loop |-> TRUE, adjusted |-> asIs]

\* (variant: the deductible grows by 10% without the cap at the maximum)
GrowFranchise_Uncapped(t, cur_fran) ==
    IF cur_fran < t.franchise_max_tnd
    THEN (cur_fran * 110) \div 100
    ELSE cur_fran

\* one pass of the loop body on the two locals
GrowFranchise(t, cur_fran) ==
    IF cur_fran < t.franchise_max_tnd
    THEN Min2(t.franchise_max_tnd, (cur_fran * 110) \div 100)
    ELSE cur_fran

ShrinkPlafond(t, cur_plaf) ==
    IF cur_plaf > t.plafond_min_tnd
    THEN Max2(t.plafond_min_tnd, (cur_plaf * 95) \div 100)
    ELSE cur_plaf

\* (variant: break as soon as one of the two bounds is reached)
Saturated_Either(t, cur_plaf, cur_fran) ==
    cur_fran >= t.franchise_max_tnd \/ cur_plaf <= t.plafond_min_tnd

\* if cur_fran >= t.franchise_max_tnd and cur_plaf <= t.plafond_min_tnd: break
Saturated(t, cur_plaf, cur_fran) ==
    cur_fran >= t.franchise_max_tnd /\ cur_plaf <= t.plafond_min_tnd

\* (variant: while premium > budget, with neither the break nor the range)
LoopContinues_WhileAbove(done, premium, budget, t, cur_plaf, cur_fran) ==
    premium > budget

\* the loop goes on to another pass: the premium is still above the budget,
\* the bounds are not both reached, and range(30) is not used up
\* (done = number of passes completed, this one included)
LoopContinues(done, premium, budget, t, cur_plaf, cur_fran) ==
    /\ premium > budget
    /\ ~Saturated(t, cur_plaf, cur_fran)
    /\ done < SearchMaxIter

----------------------------------------------------------------------------
\* engine.py : build_offer

\* the breakdown dict of the Offer: prem_pack's entries plus the budget ones
OfferBreakdown(rk, adjusted) ==
    LET common == ("uncertainty_score" :> rk.uncertainty_score)
                  @@ ("budget_applied" :> IF adjusted.budget_applied THEN 1 ELSE 0)
                  @@ adjusted.breakdown
    IN  IF adjusted.budget_unmet
        THEN ("budget_unmet" :> 1)
             @@ ("budget_target" :> IF IsNone(adjusted.budget_target) THEN 0
                                    ELSE Get(adjusted.budget_target))
             @@ common
        ELSE common

\* (variant: high_risk is raised from 0.25 on)
OfferFlags_FromThreshold(rk, adjusted) ==
    [underwriting_review |-> rk.uncertainty_score > 700,
     high_risk |-> rk.p_claim >= 250,
     budget_unmet |-> adjusted.budget_unmet]

OfferFlags(rk, adjusted) ==
    [underwriting_review |-> rk.uncertainty_score > 700,
     high_risk |-> rk.p_claim > 250,
     budget_unmet |-> adjusted.budget_unmet]

\* (variant: the offer reports the limit and the deductible computed before
\*  the budget search, next to the premium of the adjusted ones)
MakeOffer_UnadjustedTerms(t, rk, dec, adjusted) ==
    [template_id |-> t.id,
     template_name |-> t.name,
     coverages |-> t.coverages,
     plafond_tnd |-> search.plafond,
     franchise_tnd |-> search.franchise,
     prime_annuelle_tnd |-> adjusted.premium,
     breakdown |-> OfferBreakdown(rk, adjusted),
     decision_reasons |-> dec.reasons,
     flags |-> OfferFlags(rk, adjusted)]

MakeOffer(t, rk, dec, adjusted) ==
    [template_id |-> t.id,
     template_name |-> t.name,
     coverages |-> t.coverages,
     plafond_tnd |-> adjusted.plafond,
     franchise_tnd |-> adjusted.franchise,
     prime_annuelle_tnd |-> adjusted.premium,
     breakdown |-> OfferBreakdown(rk, adjusted),
     decision_reasons |-> dec.reasons,
     flags |-> OfferFlags(rk, adjusted)]

----------------------------------------------------------------------------
\* Values of the variables that are not set yet

NoCall    == [fn |-> ""]
NoModels  == [loaded |-> FALSE]
NoThreads == <<>>
NoDb      == <<>>
NoDecision == [template_id |-> "", reasons |-> <<>>, candidates |-> <<>>]
NoSearch   == [plafond |-> 0, franchise |-> 0, cur_plaf |-> 0, cur_fran |-> 0,
               done |-> 0, adjusted |-> None]
NoOffer    == [template_id |-> ""]
NoResp     == [template_id |-> ""]
NoRisk     == [p_claim |-> 0, expected_cost |-> 0, uncertainty_score |-> 0,
               cluster_hint_template_id |-> None]

----------------------------------------------------------------------------
\* Steps of select_template + build_offer

\* decision = select_template(profile, risk)
SelectTemplate ==
    /\ pc = "select"
    /\ decision' = select_template(profile, risk)
    /\ pc' = "price"
    /\ UNCHANGED <<profile, risk, env, search, offer, resp, error, entry, call, models, threads, db>>

\* build_offer, up to the call of apply_budget_constraint:
\* t = TEMPLATES[decision.template_id] raises KeyError for an unknown id
BuildOffer ==
    /\ pc = "price"
    /\ IF decision.template_id \notin DOMAIN TEMPLATES
       THEN /\ pc' = "failed"
            /\ error' = "KeyError"
            /\ UNCHANGED search
       ELSE LET t == TEMPLATES[decision.template_id]
                plafond == compute_plafond(profile, t)
                franchise == compute_franchise(profile, t, risk)
            IN  /\ pc' = "budget"
                /\ search' = [NoSearch EXCEPT !.plafond = plafond,
                                              !.franchise = franchise,
                                              !.cur_plaf = plafond,
                                              !.cur_fran = franchise]
                /\ UNCHANGED error
    /\ UNCHANGED <<profile, risk, env, decision, offer, resp, entry, call, models, threads, db>>

\* apply_budget_constraint, from its first line to the start of the loop
ApplyBudgetConstraint ==
    /\ pc = "budget"
    /\ LET t == TEMPLATES[decision.template_id]
           e == BudgetEntry(profile, t, risk, search.plafond, search.franchise)
       IN  IF e.loop
           THEN /\ pc' = "search"
                /\ UNCHANGED search
           ELSE /\ pc' = "adjusted"
                /\ search' = [search EXCEPT !.adjusted = Some(e.adjusted)]
    /\ UNCHANGED <<profile, risk, env, decision, offer, resp, error, entry, call, models, threads, db>>

\* one pass of  for _ in range(30)
BudgetSearchStep ==
    /\ pc = "search"
    /\ LET t == TEMPLATES[decision.template_id]
           budget == BudgetValue(profile)
           cur_fran == GrowFranchise(t, search.cur_fran)
           cur_plaf == ShrinkPlafond(t, search.cur_plaf)
           pack == compute_premium(t, risk, cur_plaf, cur_fran)
           done == search.done + 1
       IN  IF LoopContinues(done, pack.premium, budget, t, cur_plaf, cur_fran)
           THEN /\ pc' = "search"
                /\ search' = [search EXCEPT !.cur_plaf = cur_plaf,
                                            !.cur_fran = cur_fran,
                                            !.done = done]
           ELSE /\ pc' = "adjusted"
                /\ search' =
                     [search EXCEPT
                        !.cur_plaf = cur_plaf,
                        !.cur_fran = cur_fran,
                        !.done = done,
                        !.adjusted =
                           IF pack.premium <= budget
                           THEN Some(Adjusted(cur_plaf, cur_fran, pack, TRUE,
                                              Some(budget), FALSE, None))
                           ELSE Some(Adjusted(cur_plaf, cur_fran, pack, TRUE,
                                              Some(budget), TRUE,
                                              Some("budget_not_reachable_within_constraints")))]
    /\ UNCHANGED <<profile, risk, env, decision, offer, resp, error, entry, call, models, threads, db>>

\* build_offer, after apply_budget_constraint returned
FinishOffer ==
    /\ pc = "adjusted"
    /\ entry # "apply_budget_constraint"
    /\ offer' = MakeOffer(TEMPLATES[decision.template_id], risk, decision,
                          Get(search.adjusted))
    /\ pc' = "built"
    /\ UNCHANGED <<profile, risk, env, decision, search, resp, error, entry, call, models, threads, db>>

----------------------------------------------------------------------------
\* Input domains of the model

Activities   == {"grocery", "pharmacy", "restaurant"}
AssetValues  == {20000, 60000, 130000}                      \* TND
BudgetValues == {TND(0), TND(100), TND(300), TND(600)}      \* centimes
HintValues   == {None, Some("T2_PLUS"), Some("T3_NIGHT")}

\* risk dicts a caller of select_template / build_offer passes
EnginePClaims      == {0, 100, 160, 250, 300}
EngineCosts        == {500, 5000, 50000}
EngineUncertainty  == {500, 800}

\* env before any estimator ran
NoEnv == [freq_art |-> "", sev_art |-> "",
          unc_art |-> [meta |-> "", preprocessor |-> "", model |-> ""],
          freq_out |-> None, sev_out |-> None, unc_out |-> None,   \* optional floats
          cluster_id |-> 0]

MakeProfile(activity, night, assets, alarm, camera, ext, budget) ==
    [activity_type |-> activity,
     revenue_bucket |-> "medium",
     open_at_night |-> night,
     assets_value_tnd |-> assets,
     security_alarm |-> alarm,
     security_camera |-> camera,
     fire_extinguisher |-> ext,
     budget_constraint_tnd |-> budget]

EngineProfiles ==
    {MakeProfile(a, n, v, s[1], s[2], s[3], b) :
        a \in Activities, n \in BOOLEAN, v \in AssetValues,
        s \in BOOLEAN \X BOOLEAN \X BOOLEAN,
        b \in {None} \cup {Some(x) : x \in BudgetValues}}

EngineRisks ==
    [p_claim : EnginePClaims, expected_cost : EngineCosts,
     uncertainty_score : EngineUncertainty, cluster_hint_template_id : HintValues]

----------------------------------------------------------------------------
\* Specification of the engine called on its own: select_template followed by
\* build_offer on a profile dict and a risk dict (tests/test_offer_local.py),
\* or apply_budget_constraint called with a limit and a deductible inside the
\* template's bounds.

StartLimits(t) == {t.plafond_min_tnd, t.plafond_base_tnd, t.plafond_max_tnd}
StartDeductibles(t) == {t.franchise_min_tnd, t.franchise_base_tnd, t.franchise_max_tnd}

InitBuildOffer ==
    /\ entry = "build_offer"
    /\ pc = "select"
    /\ profile \in EngineProfiles
    /\ risk \in EngineRisks
    /\ search = NoSearch
    /\ decision = NoDecision

InitApplyBudget ==
    /\ entry = "apply_budget_constraint"
    /\ pc = "budget"
    /\ \E b \in {None} \cup {Some(x) : x \in BudgetValues} :
          profile = MakeProfile("grocery", FALSE, 0, FALSE, FALSE, FALSE, b)
    /\ \E p \in EnginePClaims, c \in EngineCosts :
          risk = [NoRisk EXCEPT !.p_claim = p, !.expected_cost = c]
    /\ \E tid \in TemplateIds :
          /\ decision = [NoDecision EXCEPT !.template_id = tid]
          /\ \E pl \in StartLimits(TEMPLATES[tid]), fr \in StartDeductibles(TEMPLATES[tid]) :
                search = [NoSearch EXCEPT !.plafond = pl, !.franchise = fr,
                                          !.cur_plaf = pl, !.cur_fran = fr]

EngineInit ==
    /\ InitBuildOffer \/ InitApplyBudget
    /\ env = NoEnv
    /\ offer = NoOffer
    /\ resp = NoResp
    /\ error = ""
    /\ call = NoCall
    /\ models = NoModels
    /\ threads = NoThreads
    /\ db = NoDb

EngineNext ==
    \/ SelectTemplate
    \/ BuildOffer
    \/ ApplyBudgetConstraint
    \/ BudgetSearchStep
    \/ FinishOffer

EngineSpec == EngineInit /\ [][EngineNext]_vars

----------------------------------------------------------------------------
\* service.py : compute_quote

\* api/schemas.py QuoteRequest, the fields the pipeline reads.  The security
\* features are nested under "security"; budget_constraint_tnd is required.
RevenueValues == {5000}

QuoteRequests ==
    [activity_type : Activities,
     open_at_night : BOOLEAN,
     assets_value_tnd : AssetValues,
     revenue_monthly_tnd : RevenueValues,
     security : [has_alarm : BOOLEAN, has_camera : BOOLEAN, has_extinguisher : BOOLEAN],
     budget_constraint_tnd : BudgetValues]

revenue_to_bucket(r) ==
    IF r < 3000 THEN "low" ELSE IF r < 8000 THEN "medium" ELSE "high"

\* profile = {...: payload.get(...)} over payload = req.model_dump(): the
\* payload has no key security_alarm / security_camera / fire_extinguisher /
\* revenue_bucket, so the defaults are taken
RequestProfile(req) ==
    [activity_type |-> req.activity_type,
     revenue_bucket |-> revenue_to_bucket(req.revenue_monthly_tnd),
     open_at_night |-> req.open_at_night,
     assets_value_tnd |-> req.assets_value_tnd,
     security_alarm |-> FALSE,
     security_camera |-> FALSE,
     fire_extinguisher |-> FALSE,
     budget_constraint_tnd |-> Some(req.budget_constraint_tnd)]

\* (variant: the upper bound is not applied)
FClamp_NoUpper(x, lo, hi) == PyMax(Fin(lo), x)

\* service._clamp(x, lo, hi) = max(lo, min(hi, x)) on a float that may be
\* non-finite; lo and hi are finite
FClamp(x, lo, hi) == PyMax(Fin(lo), PyMin(Fin(hi), x))

\* _sanitize_risk_outputs: p in thousandths, c in TND
_sanitize_risk_outputs(p_claim, expected_cost) ==
    [p |-> FClamp(p_claim, 1, 250), c |-> FClamp(expected_cost, 500, 50000)]

\* what the estimators are observed to return / how their files are found
ArtifactStates == {"ok", "missing", "corrupt"}
FreqOutputs == {NaN, PInf, NInf, Fin(100), Fin(900)}
SevOutputs  == {NaN, PInf, NInf, Fin(5000)}
UncOutputs  == {NaN, Fin(300), Fin(800), Fin(1200)}
UncArtifactCases ==
    {[meta |-> "ok", preprocessor |-> "ok", model |-> "ok"],
     [meta |-> "missing", preprocessor |-> "ok", model |-> "ok"],
     [meta |-> "ok", preprocessor |-> "missing", model |-> "ok"],
     [meta |-> "ok", preprocessor |-> "ok", model |-> "missing"],
     [meta |-> "corrupt", preprocessor |-> "ok", model |-> "ok"],
     [meta |-> "ok", preprocessor |-> "ok", model |-> "corrupt"]}

\* _get_freq_model / _get_sev_model: joblib.load(MODEL_PATH) raises when the
\* file is missing or unreadable, and compute_quote has no handler around it
LoadRaises(art) == art # "ok"

\* InferenceResult(uncertainty_score=0.50, ...), the fallback score
UncertaintyFallback == 500

\* the value compute_quote prices with when the estimator's artifact is
\* missing: the uncertainty score has one; for frequency and severity the
\* exception of joblib.load leaves compute_quote and there is none
MissingArtifactFallback(estimator) ==
    IF estimator = "uncertainty" THEN Some(UncertaintyFallback) ELSE None

\* UncertaintyService.load returns the artifacts
ArtifactsLoad(art) == art.meta = "ok" /\ art.preprocessor = "ok" /\ art.model = "ok"

\* UncertaintyService.predict: every failure inside is caught and answered
\* with (0.50, MEDIUM); the score is clamped to [0, 1].  out is the score of
\* predict_uncertainty, present only when the artifacts loaded
UncertaintyPredict(art, out) ==
    IF art.meta = "missing" \/ art.preprocessor = "missing" \/ art.model = "missing"
    THEN [raised |-> FALSE, score |-> UncertaintyFallback]       \* FileNotFoundError
    ELSE IF art.meta = "corrupt" \/ art.preprocessor = "corrupt" \/ art.model = "corrupt"
    THEN [raised |-> FALSE, score |-> UncertaintyFallback]       \* except Exception
    ELSE IF ~IsFinite(Get(out))
    THEN [raised |-> FALSE, score |-> UncertaintyFallback]       \* not np.isfinite
    ELSE [raised |-> FALSE, score |-> Clamp(Get(out).v, 0, 1000)]

\* uncertainty_fallback_used as compute_quote sets it
UncertaintyFallbackUsed(art, predicted) ==
    IF predicted.raised THEN 1
    ELSE IF art.meta = "missing" THEN 1       \* not Path(".../meta.json").exists()
    ELSE 0

\* segmentation_runtime.predict_cluster_id / cluster_to_template_hint
\* (section 6: segment(row) -> cluster_id >= 0, cluster_id -> template id | null)
MaxClusterId == 2
ClusterIds == 0..MaxClusterId

cluster_to_template_hint(cluster_id) ==
    CASE cluster_id = 1 -> Some("T1_ESS")
      [] cluster_id = 2 -> Some("T2_PLUS")
      [] cluster_id = 3 -> Some("T3_NIGHT")
      [] OTHER -> None

BoolStr(b) == IF b THEN "True" ELSE "False"

\* reasons_extra, the audit codes compute_quote appends
ReasonsExtra(prof, rk, cluster_id, fallback_used) ==
    <<[code |-> "derived_revenue_bucket", arg |-> prof.revenue_bucket],
      [code |-> "segmentation_cluster_id", arg |-> ToString(cluster_id)],
      [code |-> "cluster_hint",
       arg |-> IF IsNone(rk.cluster_hint_template_id) THEN "none"
               ELSE Get(rk.cluster_hint_template_id)],
      [code |-> "uncertainty_model", arg |-> "deeponet_v1"],
      [code |-> "uncertainty_score", arg |-> ToString(rk.uncertainty_score)],
      [code |-> "uncertainty_fallback_used", arg |-> BoolStr(fallback_used # 0)],
      [code |-> "frequency_model", arg |-> "sklearn_logreg_v1"],
      [code |-> "severity_model", arg |-> "sklearn_gamma_v1"],
      [code |-> "risk_outputs_sanitized", arg |-> "true"]>>

\* QuoteResponse(decision=ApiDecision(...), offer=ApiOffer(...)): the api
\* schemas keep the fields they declare (ApiOffer declares neither flags nor
\* explain; ApiDecision's candidates is not passed and defaults to [])
MakeResponse(prof, rk, dec, priced_offer, cluster_id, fallback_used) ==
    [decision |->
        [template_id |-> dec.template_id,
         candidates |-> <<>>,
         reasons |-> dec.reasons \o ReasonsExtra(prof, rk, cluster_id, fallback_used)],
     offer |->
        [template_id |-> priced_offer.template_id,
         template_name |-> priced_offer.template_name,
         coverages |-> priced_offer.coverages,
         plafond_tnd |-> priced_offer.plafond_tnd,
         franchise_tnd |-> priced_offer.franchise_tnd,
         prime_annuelle_tnd |-> priced_offer.prime_annuelle_tnd,
         breakdown |-> ("uncertainty_fallback_used" :> fallback_used)
                       @@ priced_offer.breakdown]]

----------------------------------------------------------------------------
\* Steps of compute_quote

\* freq_model = _get_freq_model(); p_claim = predict_p_claim(freq_model, X)
PredictFrequency ==
    /\ pc = "freq"
    /\ \E art \in ArtifactStates :
          IF LoadRaises(art)
          THEN /\ env' = [env EXCEPT !.freq_art = art]
               /\ pc' = "failed"
               /\ error' = "frequency_model_load"
          ELSE \E out \in FreqOutputs :
                 /\ env' = [env EXCEPT !.freq_art = art, !.freq_out = Some(out)]
                 /\ pc' = "sev"
                 /\ UNCHANGED error
    /\ UNCHANGED <<profile, risk, decision, search, offer, resp, entry, call, models, threads, db>>

\* sev_model = _get_sev_model(); expected_cost = float(sev_model.predict(X)[0]);
\* then _sanitize_risk_outputs and the risk dict
PredictSeverity ==
    /\ pc = "sev"
    /\ \E art \in ArtifactStates :
          IF LoadRaises(art)
          THEN /\ env' = [env EXCEPT !.sev_art = art]
               /\ pc' = "failed"
               /\ error' = "severity_model_load"
               /\ UNCHANGED risk
          ELSE \E out \in SevOutputs :
                 LET san == _sanitize_risk_outputs(Get(env.freq_out), out)
                 IN  /\ env' = [env EXCEPT !.sev_art = art, !.sev_out = Some(out)]
                     /\ IF IsFinite(san.p) /\ IsFinite(san.c)
                        THEN /\ risk' = [risk EXCEPT !.p_claim = san.p.v,
                                                     !.expected_cost = san.c.v]
                             /\ pc' = "unc"
                             /\ UNCHANGED error
                        ELSE \* a NaN or an infinity enters the risk dict
                             /\ pc' = "failed"
                             /\ error' = "non_finite_risk"
                             /\ UNCHANGED risk
    /\ UNCHANGED <<profile, decision, search, offer, resp, entry, call, models, threads, db>>

\* unc = UncertaintyService().predict(profile) inside try / except, then the
\* meta.json test that sets uncertainty_fallback_used
PredictUncertainty ==
    /\ pc = "unc"
    /\ \E art \in UncArtifactCases :
       \E out \in IF ArtifactsLoad(art) THEN {Some(x) : x \in UncOutputs} ELSE {None} :
          LET predicted == UncertaintyPredict(art, out)
          IN  /\ env' = [env EXCEPT !.unc_art = art, !.unc_out = out]
              /\ risk' = [risk EXCEPT !.uncertainty_score =
                             IF predicted.raised THEN UncertaintyFallback
                             ELSE predicted.score]
    /\ pc' = "seg"
    /\ UNCHANGED <<profile, decision, search, offer, resp, error, entry, call, models, threads, db>>

\* cluster_id = predict_cluster_id(profile); hint_tid = cluster_to_template_hint(...)
Segment ==
    /\ pc = "seg"
    /\ \E cid \in ClusterIds :
          /\ env' = [env EXCEPT !.cluster_id = cid]
          /\ risk' = [risk EXCEPT !.cluster_hint_template_id =
                                      cluster_to_template_hint(cid)]
    /\ pc' = "select"
    /\ UNCHANGED <<profile, decision, search, offer, resp, error, entry, call, models, threads, db>>

\* the response built from the decision and the priced offer
Respond ==
    /\ pc = "built"
    /\ entry = "compute_quote"
    /\ resp' = MakeResponse(profile, risk, decision, offer, env.cluster_id,
                            UncertaintyFallbackUsed(env.unc_art,
                                UncertaintyPredict(env.unc_art, env.unc_out)))
    /\ pc' = "done"
    /\ UNCHANGED <<profile, risk, env, decision, search, offer, error, entry, call, models, threads, db>>

Init ==
    /\ entry = "compute_quote"
    /\ pc = "freq"
    /\ \E req \in QuoteRequests : profile = RequestProfile(req)
    /\ risk = NoRisk
    /\ env = NoEnv
    /\ decision = NoDecision
    /\ search = NoSearch
    /\ offer = NoOffer
    /\ resp = NoResp
    /\ error = ""
    /\ call = NoCall
    /\ models = NoModels
    /\ threads = NoThreads
    /\ db = NoDb

Next ==
    \/ PredictFrequency
    \/ PredictSeverity
    \/ PredictUncertainty
    \/ Segment
    \/ SelectTemplate
    \/ BuildOffer
    \/ ApplyBudgetConstraint
    \/ BudgetSearchStep
    \/ FinishOffer
    \/ Respond

Spec == Init /\ [][Next]_vars

----------------------------------------------------------------------------
\* Properties of the pricing engine (checked under EngineSpec)

ChosenTemplate == TEMPLATES[decision.template_id]

HasBudget == ~IsNone(profile.budget_constraint_tnd)

\* apply_budget_constraint has returned
Returned == ~IsNone(search.adjusted)

\* the premium of Step 3 for the limit and deductible the search starts from
InitialPremium ==
    compute_premium(ChosenTemplate, risk, search.plafond, search.franchise).premium

\* C1: on every path of the engine the final premium (of what
\* apply_budget_constraint returns and of the offer built from it) is at
\* least the chosen template's minimum premium.
C1_PremiumNeverBelowMinimum ==
    /\ Returned =>
          Get(search.adjusted).premium >= _min_premium_for_template(ChosenTemplate)
    /\ pc = "built" =>
          offer.prime_annuelle_tnd >= _min_premium_for_template(ChosenTemplate)

\* an offer whose premium was lifted to the floor, for a budget under it
C1_Witness ==
    /\ pc = "built"
    /\ offer.breakdown["min_premium_applied"] = 1
    /\ offer.prime_annuelle_tnd = _min_premium_for_template(ChosenTemplate)
    /\ HasBudget /\ BudgetValue(profile) > 0
    /\ BudgetValue(profile) < offer.prime_annuelle_tnd

\* C2: with a budget at or above the minimum premium and an initial premium
\* above the budget, apply_budget_constraint returns either premium <= budget
\* without budget_unmet, or budget_unmet with reason
\* budget_not_reachable_within_constraints and the deductible at the template
\* maximum and the limit at the template minimum.
C2_MetOrBothSaturated ==
    (/\ Returned
     /\ HasBudget
     /\ ~(BudgetValue(profile) < _min_premium_for_template(ChosenTemplate))
     /\ InitialPremium > BudgetValue(profile))
    => LET a == Get(search.adjusted)
       IN  \/ a.premium <= BudgetValue(profile) /\ ~a.budget_unmet
           \/ /\ a.budget_unmet
              /\ a.budget_reason = Some("budget_not_reachable_within_constraints")
              /\ a.franchise = ChosenTemplate.franchise_max_tnd
              /\ a.plafond = ChosenTemplate.plafond_min_tnd

\* the search gave up, after more than one pass, with both bounds reached
C2_Witness ==
    /\ Returned
    /\ Get(search.adjusted).budget_reason = Some("budget_not_reachable_within_constraints")
    /\ search.done > 1
    /\ search.plafond > ChosenTemplate.plafond_min_tnd
    /\ search.franchise < ChosenTemplate.franchise_max_tnd

\* C3: the budget-fit search recomputes the premium at most 30 times: the
\* number of passes never exceeds 30, and while the loop is running fewer than
\* 30 passes are done, so the pass that follows stays within the bound; after
\* the last pass apply_budget_constraint has returned.
C3_SearchBounded ==
    /\ search.done <= 30
    /\ pc = "search" => search.done < 30 /\ ~Returned
    /\ (pc \in {"adjusted", "built"}) => Returned

\* the longest search: 28 passes before apply_budget_constraint returns
C3_Witness == pc = "adjusted" /\ search.done >= 28

\* C5 as stated: with a budget below the minimum premium the final premium
\* equals the template's minimum premium.
C5_PremiumEqualsMinimum ==
    (pc = "built" /\ HasBudget
        /\ BudgetValue(profile) < _min_premium_for_template(ChosenTemplate))
    => offer.prime_annuelle_tnd = _min_premium_for_template(ChosenTemplate)

\* C5 amended: with a budget below the minimum premium the offer keeps the
\* initial limit and deductible and its premium is the Step-3 premium for
\* them, max(premium_raw, minimum premium): the minimum exactly when
\* premium_raw does not exceed it, and above the budget in every case.
C5_PremiumIsUnadjustedFlooredPremium ==
    (pc = "built" /\ HasBudget
        /\ BudgetValue(profile) < _min_premium_for_template(ChosenTemplate))
    => /\ offer.plafond_tnd = compute_plafond(profile, ChosenTemplate)
       /\ offer.franchise_tnd = compute_franchise(profile, ChosenTemplate, risk)
       /\ offer.prime_annuelle_tnd = InitialPremium
       /\ offer.prime_annuelle_tnd =
             Max2(offer.breakdown["premium_raw"], _min_premium_for_template(ChosenTemplate))
       /\ (offer.prime_annuelle_tnd = _min_premium_for_template(ChosenTemplate))
             <=> (offer.breakdown["premium_raw"] <= _min_premium_for_template(ChosenTemplate))
       /\ offer.prime_annuelle_tnd > BudgetValue(profile)

\* a budget below the minimum premium and a premium above the minimum
C5_Witness ==
    /\ pc = "built" /\ HasBudget
    /\ BudgetValue(profile) > 0
    /\ BudgetValue(profile) < _min_premium_for_template(ChosenTemplate)
    /\ offer.prime_annuelle_tnd > _min_premium_for_template(ChosenTemplate)

----------------------------------------------------------------------------
\* Properties of compute_quote (checked under Spec)

Responded == pc = "done"

InBreakdown(r, key) == key \in DOMAIN r.offer.breakdown

\* a reason code appears in the reasons the caller receives
ResponseHasReason(r, code) ==
    \E i \in 1..Len(r.decision.reasons) : r.decision.reasons[i].code = code

\* C4: a budget below the chosen template's minimum premium (0 included) gives
\* a response that marks budget_unmet and carries the reason code
\* budget_below_min_premium.
C4_BelowMinimumIsReported ==
    (Responded /\ BudgetValue(profile) < _min_premium_for_template(ChosenTemplate))
    => /\ InBreakdown(resp, "budget_unmet")
       /\ resp.offer.breakdown["budget_unmet"] = 1
       /\ ResponseHasReason(resp, "budget_below_min_premium")

\* C6: when no template is eligible the selector returns the default template
\* with the single reason fallback_no_candidate and no candidates, the default
\* id is one of the templates, and compute_quote goes on to return an offer.
C6_FallbackIsPriced ==
    (Candidates(profile) = <<>> /\ decision # NoDecision)
    => /\ decision.reasons = <<[code |-> "fallback_no_candidate", arg |-> ""]>>
       /\ decision.candidates = <<>>
       /\ decision.template_id \in DOMAIN TEMPLATES
       /\ pc # "failed"

\* C7: missing or corrupted artifacts of an estimator do not make
\* compute_quote fail.
C7_MissingArtifactsDoNotFail ==
    (\/ env.freq_art \in {"missing", "corrupt"}
     \/ env.sev_art \in {"missing", "corrupt"}
     \/ (env.unc_art.meta # "" /\ ~ArtifactsLoad(env.unc_art)))
    => pc # "failed"

\* the 0.50 fallback stands in for the uncertainty score
UncertaintyFellBack ==
    \/ ~ArtifactsLoad(env.unc_art)
    \/ ~IsFinite(Get(env.unc_out))

\* C8: uncertainty_fallback_used is 1 in the response exactly when the
\* uncertainty estimator could not be loaded or run and the fallback was used.
C8_FlagIffFallback ==
    Responded =>
       (resp.offer.breakdown["uncertainty_fallback_used"] = 1 <=> UncertaintyFellBack)

\* C9: a non-finite estimator output is replaced by the fallback of a missing
\* artifact, and nothing non-finite enters the offer.
C9_NonFiniteReplacedByFallback ==
    /\ error # "non_finite_risk"
    /\ Responded =>
          /\ ~IsFinite(Get(env.freq_out)) =>
                risk.p_claim \in MissingArtifactFallback("frequency")
          /\ ~IsFinite(Get(env.sev_out)) =>
                risk.expected_cost \in MissingArtifactFallback("severity")
          /\ (ArtifactsLoad(env.unc_art) /\ ~IsFinite(Get(env.unc_out))) =>
                risk.uncertainty_score \in MissingArtifactFallback("uncertainty")

\* C10: the risk bundle compute_quote hands on has p_claim in [0, 1] and at
\* most 0.25, and expected_cost in [500, 50000].
C10_RiskWithinBands ==
    (~IsNone(env.sev_out) /\ error # "non_finite_risk")
    => /\ 0 <= risk.p_claim /\ risk.p_claim <= 1000
       /\ risk.p_claim <= 250
       /\ 500 <= risk.expected_cost /\ risk.expected_cost <= 50000

\* an over-cap probability and a non-finite cost reached the selector clamped
C10_Witness ==
    /\ pc = "select"
    /\ env.freq_out = Some(Fin(900))
    /\ env.sev_out = Some(NaN)
    /\ risk.p_claim = 250
    /\ risk.expected_cost = 50000


----------------------------------------------------------------------------
\* Python strings as sequences of characters, and float(str)

UpperLetters == <<"A","B","C","D","E","F","G","H","I","J","K","L","M",
                  "N","O","P","Q","R","S","T","U","V","W","X","Y","Z">>
LowerLetters == <<"a","b","c","d","e","f","g","h","i","j","k","l","m",
                  "n","o","p","q","r","s","t","u","v","w","x","y","z">>

LowerChar(c) ==
    IF \E i \in 1..Len(UpperLetters) : UpperLetters[i] = c
    THEN LowerLetters[CHOOSE i \in 1..Len(UpperLetters) : UpperLetters[i] = c]
    ELSE c

\* str.lower()
Lower(s) == [i \in 1..Len(s) |-> LowerChar(s[i])]

\* str.strip(), on strings whose only whitespace is the blank
RECURSIVE LStrip(_)
LStrip(s) == IF s # <<>> /\ Head(s) = " " THEN LStrip(Tail(s)) ELSE s
RECURSIVE RStrip(_)
RStrip(s) ==
    IF s # <<>> /\ s[Len(s)] = " " THEN RStrip(SubSeq(s, 1, Len(s) - 1)) ELSE s
Strip(s) == RStrip(LStrip(s))

\* str.replace(old, new) for single characters
ReplaceChar(s, old, new) == [i \in 1..Len(s) |-> IF s[i] = old THEN new ELSE s[i]]

DigitChars == <<"0","1","2","3","4","5","6","7","8","9">>
IsDigit(c) == \E i \in 1..10 : DigitChars[i] = c
DigitVal(c) == (CHOOSE i \in 1..10 : DigitChars[i] = c) - 1

RECURSIVE DigitsValue(_)
DigitsValue(d) ==
    IF d = <<>> THEN 0
    ELSE DigitsValue(SubSeq(d, 1, Len(d) - 1)) * 10 + DigitVal(d[Len(d)])

\* float(s) for a str: surrounding blanks are ignored; an optional sign; then
\* inf / infinity / nan in any case, or decimal digits with at most one point
\* and at least one digit.  The value is kept in thousandths.  None stands for
\* ValueError.
PyFloatOfStr(str) ==
    LET s     == Strip(str)
        signed == s # <<>> /\ s[1] \in {"+", "-"}
        neg   == s # <<>> /\ s[1] = "-"
        b     == IF signed THEN Tail(s) ELSE s
        word  == Lower(b)
        pts   == {i \in 1..Len(b) : b[i] = "."}
        p     == IF pts = {} THEN Len(b) + 1 ELSE CHOOSE i \in pts : TRUE
        ip    == SubSeq(b, 1, p - 1)
        fp    == SubSeq(b, p + 1, Len(b))
        ok    == /\ Cardinality(pts) <= 1
                 /\ \A i \in 1..Len(b) : i \in pts \/ IsDigit(b[i])
                 /\ Len(ip) + Len(fp) >= 1
        mag   == DigitsValue(ip) * 1000
                    + DigitsValue(SubSeq(fp \o <<"0", "0", "0">>, 1, 3))
    IN  IF word \in {<<"i","n","f">>, <<"i","n","f","i","n","i","t","y">>}
        THEN Some(IF neg THEN NInf ELSE PInf)
        ELSE IF word = <<"n","a","n">> THEN Some(NaN)
        ELSE IF ok THEN Some(Fin(IF neg THEN 0 - mag ELSE mag))
        ELSE None

----------------------------------------------------------------------------
\* select_template called on a risk dict whose values are whatever the caller
\* put there: None, a number, a str, a list

RNone    == [t |-> "none"]
RNum(f)  == [t |-> "num", f |-> f]
RStr(s)  == [t |-> "str", s |-> s]        \* a str that is parsed: characters
RId(s)   == [t |-> "id", s |-> s]         \* a str that is only compared
RList(n) == [t |-> "list", n |-> n]       \* a list of n elements

\* float(x or 0.0): a falsy x (None, 0, "", []) gives 0.0, a number itself,
\* a str is parsed (ValueError), a non-empty list is a TypeError
FloatOrZero(x) ==
    CASE x.t = "none" -> [raised |-> "", v |-> Fin(0)]
      [] x.t = "num"  -> [raised |-> "", v |-> x.f]
      [] x.t = "str"  ->
            IF x.s = <<>> THEN [raised |-> "", v |-> Fin(0)]
            ELSE IF IsNone(PyFloatOfStr(x.s))
                 THEN [raised |-> "ValueError", v |-> NaN]
                 ELSE [raised |-> "", v |-> Get(PyFloatOfStr(x.s))]
      [] x.t = "list" ->
            IF x.n = 0 THEN [raised |-> "", v |-> Fin(0)]
            ELSE [raised |-> "TypeError", v |-> NaN]

\* `hint in scores`: hashing a list raises TypeError
HintLookupRaises(x) == x.t = "list"

\* the float, as the comparisons `p_claim > 0.15` / `uncertainty > 0.7` see
\* it: NaN is greater than nothing, +inf than every threshold
AsCompared(f) ==
    CASE f.k = "fin"  -> f.v
      [] f.k = "nan"  -> 0
      [] f.k = "pinf" -> 1000000
      [] f.k = "ninf" -> 0 - 1000000

\* p_claim, uncertainty and hint as select_template reads them from the dict
CoercedRisk(rk) ==
    [p_claim |-> AsCompared(FloatOrZero(rk.p_claim).v),
     expected_cost |-> 0,
     uncertainty_score |-> AsCompared(FloatOrZero(rk.uncertainty_score).v),
     cluster_hint_template_id |->
        IF rk.cluster_hint_template_id.t = "id"
        THEN Some(rk.cluster_hint_template_id.s) ELSE None]

\* the exception select_template leaves with, "" when it returns: the
\* fallback returns before any signal is read (rules.py:52-54), then
\* p_claim, uncertainty and the hint are read in this order
SelectRaises(prof, rk) ==
    IF Candidates(prof) = <<>> THEN ""
    ELSE IF FloatOrZero(rk.p_claim).raised # "" THEN FloatOrZero(rk.p_claim).raised
    ELSE IF FloatOrZero(rk.uncertainty_score).raised # ""
         THEN FloatOrZero(rk.uncertainty_score).raised
    ELSE IF HintLookupRaises(rk.cluster_hint_template_id) THEN "TypeError"
    ELSE ""

\* select_template(profile, risk) on such a dict
SelectTemplateRaw ==
    /\ entry = "select_template"
    /\ pc = "select"
    /\ IF SelectRaises(profile, risk) # ""
       THEN /\ pc' = "failed"
            /\ error' = SelectRaises(profile, risk)
            /\ UNCHANGED decision
       ELSE /\ pc' = "selected"
            /\ decision' = select_template(profile, CoercedRisk(risk))
            /\ UNCHANGED error
    /\ UNCHANGED <<profile, risk, env, search, offer, resp, entry, call, models, threads, db>>

\* max(scores.items(), key=lambda x: x[1]) on a scores dict of its own
CallMax ==
    /\ entry = "max"
    /\ call.fn = "max"
    /\ IsNone(call.ret)
    /\ call' = [call EXCEPT !.ret = Some(MaxItem(call.arg))]
    /\ UNCHANGED <<pc, profile, risk, env, decision, search, offer, resp, error,
                   entry, models, threads, db>>

\* the signals a caller passes
RawNumbers ==
    {RNone, RNum(Fin(100)), RNum(Fin(200)), RNum(Fin(800)), RNum(NaN),
     RStr(<<"0", ".", "2">>), RStr(<<"a", "b", "c">>), RStr(<<>>)}
RawPClaims == RawNumbers
RawUncertainty == {RNone, RNum(Fin(500)), RNum(Fin(800)), RStr(<<"h", "i", "g", "h">>)}
RawHints ==
    {RNone, RId("T1_ESSENTIEL"), RId("T2_PLUS"), RId("T3_NIGHT"), RId("T1_ESS"),
     RNum(Fin(2000)), RList(1)}

SelectorProfiles ==
    {MakeProfile(a, n, v, FALSE, FALSE, FALSE, None) :
        a \in Activities, n \in BOOLEAN, v \in AssetValues}

\* the scores a candidate can collect, in tenths
ScoreValues == {0, 15, 20, 34}

\* scores dicts: the candidates in declaration order, each with a score
ScoreItems ==
    UNION {
      {[i \in 1..Len(c) |-> [tid |-> c[i], score |-> f[i]]] :
          f \in [1..Len(c) -> ScoreValues]} :
      c \in {<<"T1_ESSENTIEL">>, <<"T2_PLUS">>, <<"T3_NIGHT">>,
             <<"T1_ESSENTIEL", "T2_PLUS">>, <<"T1_ESSENTIEL", "T3_NIGHT">>,
             <<"T2_PLUS", "T3_NIGHT">>,
             <<"T1_ESSENTIEL", "T2_PLUS", "T3_NIGHT">>}}

InitSelect ==
    /\ entry = "select_template"
    /\ pc = "select"
    /\ profile \in SelectorProfiles
    /\ risk \in [p_claim : RawPClaims, uncertainty_score : RawUncertainty,
                 cluster_hint_template_id : RawHints]
    /\ call = NoCall

InitMax ==
    /\ entry = "max"
    /\ pc = "call"
    /\ profile = MakeProfile("grocery", FALSE, 0, FALSE, FALSE, FALSE, None)
    /\ risk = NoRisk
    /\ \E items \in ScoreItems : call = [fn |-> "max", arg |-> items, ret |-> None]

SelectorInit ==
    /\ InitSelect \/ InitMax
    /\ env = NoEnv
    /\ decision = NoDecision
    /\ search = NoSearch
    /\ offer = NoOffer
    /\ resp = NoResp
    /\ error = ""
    /\ models = NoModels
    /\ threads = NoThreads
    /\ db = NoDb

SelectorNext ==
    \/ SelectTemplateRaw
    \/ CallMax

SelectorSpec == SelectorInit /\ [][SelectorNext]_vars

----------------------------------------------------------------------------
\* Properties of the selector

\* select_template has returned its decision for the profile and risk dict
Selected == entry = "build_offer" /\ decision # NoDecision

\* C11: the chosen template id is a member of the candidate list of the same
\* decision, unless no template is eligible, where the list is empty.
C11_ChosenIsCandidate ==
    Selected =>
       /\ decision.candidates = Candidates(profile)
       /\ IF Candidates(profile) = <<>>
          THEN decision.candidates = <<>>
          ELSE Contains(decision.candidates, decision.template_id)

\* two candidates, the second of which is chosen
C11_Witness ==
    /\ Selected
    /\ Len(decision.candidates) = 2
    /\ decision.template_id = decision.candidates[2]

\* select_template returned a decision for a risk dict of raw signals
SelectedRaw == entry = "select_template" /\ pc = "selected"

DecisionHasReason(dec, code) ==
    \E i \in 1..Len(dec.reasons) : dec.reasons[i].code = code

\* the item is the first of those with the greatest score
FirstMaximal(items, r) ==
    \E i \in 1..Len(items) :
        /\ items[i] = r
        /\ \A j \in 1..Len(items) : items[j].score <= r.score
        /\ \A j \in 1..(i - 1) : items[j].score < r.score

NightEligible == profile.open_at_night /\ _eligible(TEMPLATES["T3_NIGHT"], profile)

\* the hint names the extended template and that template is a candidate
HintedPlus ==
    /\ risk.cluster_hint_template_id = RId("T2_PLUS")
    /\ _eligible(TEMPLATES["T2_PLUS"], profile)

C14_SelectorNeverRaises ==
    entry = "select_template" => (pc # "failed" /\ error = "")

----------------------------------------------------------------------------
\* Properties of the offer returned by compute_quote

\* C15: the offer compute_quote returns carries a flags map with
\* underwriting_review = (uncertainty > 0.7), high_risk = (p_claim > 0.25) and
\* budget_unmet = the outcome of the budget-fit step.
C15_ResponseCarriesFlags ==
    Responded =>
       /\ "flags" \in DOMAIN resp.offer
       /\ resp.offer.flags =
             [underwriting_review |-> risk.uncertainty_score > 700,
              high_risk |-> risk.p_claim > 250,
              budget_unmet |-> Get(search.adjusted).budget_unmet]

----------------------------------------------------------------------------
\* models/frequency_model.py : the feature normalizer

RBool(b) == [t |-> "bool", b |-> b]

\* float(x) >= 0.5 : False for NaN
AtLeastHalf(f) == f.k # "nan" /\ ~FLess(f, Fin(500))

\* the words _to_int01_bool recognizes, after strip().lower()
TrueWords ==
    {<<"1">>, <<"t", "r", "u", "e">>, <<"y", "e", "s">>, <<"y">>,
     <<"o", "u", "i">>, <<"v", "r", "a", "i">>}
FalseWords ==
    {<<"0">>, <<"f", "a", "l", "s", "e">>, <<"n", "o">>, <<"n">>,
     <<"n", "o", "n">>, <<"f", "a", "u", "x">>}

\* (variant: a str is taken by its truthiness, bool(s))
_to_int01_bool_Truthy(x) ==
    CASE x.t = "none" -> 0
      [] x.t = "bool" -> IF x.b THEN 1 ELSE 0
      [] x.t = "num"  -> IF AtLeastHalf(x.f) THEN 1 ELSE 0
      [] x.t = "str"  -> IF x.s # <<>> THEN 1 ELSE 0
      [] OTHER        -> 0

_to_int01_bool(x) ==
    CASE x.t = "none" -> 0
      [] x.t = "bool" -> IF x.b THEN 1 ELSE 0
      [] x.t = "num"  -> IF AtLeastHalf(x.f) THEN 1 ELSE 0
      [] x.t = "str"  ->
            IF Lower(Strip(x.s)) \in TrueWords THEN 1
            ELSE IF Lower(Strip(x.s)) \in FalseWords THEN 0
            ELSE 0
      [] OTHER        -> 0

\* _to_float: a bool is an int (float(True) = 1.0); a str is stripped, its
\* commas become points, then float(s), 0.0 on ValueError
_to_float(x) ==
    CASE x.t = "none" -> Fin(0)
      [] x.t = "bool" -> IF x.b THEN Fin(1000) ELSE Fin(0)
      [] x.t = "num"  -> x.f
      [] x.t = "str"  ->
            LET s == ReplaceChar(Strip(x.s), ",", ".")
            IN  IF s = <<>> THEN Fin(0)
                ELSE IF IsNone(PyFloatOfStr(s)) THEN Fin(0)
                ELSE Get(PyFloatOfStr(s))
      [] OTHER        -> Fin(0)

\* pd.to_numeric(df[c], errors="coerce").fillna(0.0).astype(float) on a float
\* cell: NaN becomes 0.0, every other float stays
FillNaFloat(f) == IF f.k = "nan" THEN Fin(0) ELSE f

\* pd.to_numeric(df[c], errors="coerce").fillna(0).astype(int) on a cell
\* that holds the int 0 or 1
FillNaInt(i) == IF i \in {0, 1} THEN i ELSE 0

\* make_feature_row for a profile value read both as a numeric feature and
\* as a bool feature
make_feature_row(x) ==
    [num |-> FillNaFloat(_to_float(x)), bool |-> FillNaInt(_to_int01_bool(x))]

\* values a profile dict can hold under a feature key
BoolStrings ==
    {RStr(<<"F", "a", "l", "s", "e">>), RStr(<<"f", "a", "l", "s", "e">>),
     RStr(<<"0">>), RStr(<<"n", "o", "n">>), RStr(<<"T", "r", "u", "e">>),
     RStr(<<"1">>), RStr(<<"o", "u", "i">>), RStr(<<"y", "e", "s">>),
     RStr(<<"n", "o">>), RStr(<<" ", "T", "R", "U", "E", " ">>),
     RStr(<<"F", "A", "U", "X">>), RStr(<<"m", "a", "y", "b", "e">>),
     RStr(<<>>), RStr(<<"2">>), RStr(<<"o", "n">>)}
NumericStrings ==
    {RStr(<<"1", ".", "5">>), RStr(<<"1", ",", "5">>), RStr(<<"-", "5">>),
     RStr(<<" ", "1", "2", " ">>), RStr(<<"a", "b", "c">>),
     RStr(<<"i", "n", "f">>), RStr(<<"n", "a", "n">>),
     RStr(<<"-", "i", "n", "f">>), RStr(<<"1", ".", "2", ".", "3">>),
     RStr(<<"1", ",", "2", "3", "4", ".", "5">>), RStr(<<".", "5">>),
     RStr(<<"+", "3">>)}
ProfileNumbers ==
    {RNum(Fin(0)), RNum(Fin(400)), RNum(Fin(500)), RNum(Fin(1000)),
     RNum(Fin(0 - 5000)), RNum(Fin(20000)), RNum(NaN), RNum(PInf)}
ProfileValues ==
    {RNone, RBool(TRUE), RBool(FALSE), RList(0), RList(1)}
        \cup BoolStrings \cup NumericStrings \cup ProfileNumbers


----------------------------------------------------------------------------
\* models/geo_proxies.py : GeoProxies

MaxRows == 2

\* rows of the reference dataset: governorate, density_per_km2, poi_per_km2
GeoRows ==
    {[governorate |-> "Tunis", density_per_km2 |-> 1000, poi_per_km2 |-> 40],
     [governorate |-> "Tunis", density_per_km2 |-> 3000, poi_per_km2 |-> 80],
     [governorate |-> "Sfax",  density_per_km2 |-> 3000, poi_per_km2 |-> 80],
     [governorate |-> "Sfax",  density_per_km2 |-> 5000, poi_per_km2 |-> 20]}

RowSeqs == UNION {[1..n -> GeoRows] : n \in 0..MaxRows}

\* what self.data_path holds: no file, a file of zero bytes, or a csv table
\* with or without the density / poi columns and the governorate column
Datasets ==
    {[k |-> "absent"], [k |-> "emptyfile"],
     [k |-> "table", has_density |-> FALSE, has_gov |-> TRUE, rows |-> <<>>]}
    \cup {[k |-> "table", has_density |-> TRUE, has_gov |-> g, rows |-> r] :
             g \in BOOLEAN, r \in RowSeqs}

RegionIds == {"Tunis", "Gabes", ""}

\* Series.median(): NaN for an empty column, else the middle value of the
\* sorted values or the mean of the two middle ones
Median(vals) ==
    LET s == SortSeq(vals, LAMBDA a, b : a < b)
        n == Len(s)
    IN  IF n = 0 THEN NaN
        ELSE IF n % 2 = 1 THEN Fin(s[(n + 1) \div 2])
        ELSE Fin((s[n \div 2] + s[n \div 2 + 1]) \div 2)

Column(rows, c) == [i \in 1..Len(rows) |-> rows[i][c]]

RowsOf(rows, gov) == SelectSeq(rows, LAMBDA r : r.governorate = gov)

\* the hard fallback of load when the columns do not exist
HardcodedPair == <<Fin(1500), Fin(60)>>

\* GeoProxies.load: pd.read_csv raises for a missing file (FileNotFoundError)
\* and for a file without columns (EmptyDataError); nothing catches it
GeoLoad(ds) ==
    CASE ds.k = "absent"    -> [raised |-> "FileNotFoundError"]
      [] ds.k = "emptyfile" -> [raised |-> "EmptyDataError"]
      [] ~ds.has_density    ->
            [raised |-> "", by_governorate |-> {}, by |-> <<>>,
             global_fallback |-> HardcodedPair]
      [] OTHER ->
            LET govs == IF ds.has_gov
                        THEN {ds.rows[i].governorate : i \in 1..Len(ds.rows)}
                        ELSE {}
            IN  [raised |-> "",
                 by_governorate |-> govs,
                 by |-> [g \in govs |->
                           <<Median(Column(RowsOf(ds.rows, g), "density_per_km2")),
                             Median(Column(RowsOf(ds.rows, g), "poi_per_km2"))>>],
                 global_fallback |->
                           <<Median(Column(ds.rows, "density_per_km2")),
                             Median(Column(ds.rows, "poi_per_km2"))>>]

\* GeoProxies.get(governorate)
GeoGetResult(governorate, ds) ==
    LET store == GeoLoad(ds)
    IN  IF store.raised # "" THEN [raised |-> store.raised, pair |-> <<NaN, NaN>>]
        ELSE IF governorate \in store.by_governorate
             THEN [raised |-> "", pair |-> store.by[governorate]]
             ELSE [raised |-> "", pair |-> store.global_fallback]

----------------------------------------------------------------------------
\* Calls of the helper functions, each on one argument

CallToFloat ==
    /\ call.fn = "_to_float" /\ IsNone(call.ret)
    /\ call' = [call EXCEPT !.ret = Some(_to_float(call.arg))]
    /\ UNCHANGED <<pc, profile, risk, env, decision, search, offer, resp, error,
                   entry, models, threads, db>>

CallToInt01Bool ==
    /\ call.fn = "_to_int01_bool" /\ IsNone(call.ret)
    /\ call' = [call EXCEPT !.ret = Some(_to_int01_bool(call.arg))]
    /\ UNCHANGED <<pc, profile, risk, env, decision, search, offer, resp, error,
                   entry, models, threads, db>>

MakeFeatureRow ==
    /\ call.fn = "make_feature_row" /\ IsNone(call.ret)
    /\ call' = [call EXCEPT !.ret = Some(make_feature_row(call.arg))]
    /\ UNCHANGED <<pc, profile, risk, env, decision, search, offer, resp, error,
                   entry, models, threads, db>>

GeoGet ==
    /\ call.fn = "GeoProxies.get" /\ IsNone(call.ret)
    /\ call' = [call EXCEPT
                  !.ret = Some(GeoGetResult(call.arg.governorate, call.arg.dataset))]
    /\ UNCHANGED <<pc, profile, risk, env, decision, search, offer, resp, error,
                   entry, models, threads, db>>

HelperCalls ==
    {[fn |-> f, arg |-> x, ret |-> None] :
        f \in {"_to_float", "_to_int01_bool", "make_feature_row"},
        x \in ProfileValues}
    \cup {[fn |-> "GeoProxies.get",
           arg |-> [governorate |-> g, dataset |-> ds], ret |-> None] :
             g \in RegionIds, ds \in Datasets}

HelperInit ==
    /\ entry = "helper"
    /\ pc = "call"
    /\ call \in HelperCalls
    /\ profile = MakeProfile("grocery", FALSE, 0, FALSE, FALSE, FALSE, None)
    /\ risk = NoRisk
    /\ env = NoEnv
    /\ decision = NoDecision
    /\ search = NoSearch
    /\ offer = NoOffer
    /\ resp = NoResp
    /\ error = ""
    /\ models = NoModels
    /\ threads = NoThreads
    /\ db = NoDb

HelperNext ==
    \/ CallToFloat
    \/ CallToInt01Bool
    \/ MakeFeatureRow
    \/ GeoGet

HelperSpec == HelperInit /\ [][HelperNext]_vars

----------------------------------------------------------------------------
\* Properties of the feature normalizer and of the geo proxies

HelperReturned(fn) == call.fn = fn /\ ~IsNone(call.ret)

\* the 0/1 a bool feature gets, from _to_int01_bool or in the feature row
BoolCoerced ==
    IF call.fn = "make_feature_row" THEN Get(call.ret).bool ELSE Get(call.ret)

\* the float a numeric feature gets, from _to_float or in the feature row
NumCoerced ==
    IF call.fn = "make_feature_row" THEN Get(call.ret).num ELSE Get(call.ret)

\* C16: "False", "false", "0", "non" coerce to 0; "True", "1", "oui" to 1;
\* every unrecognized string to 0; a boolean to itself; a number to 1 exactly
\* when it is >= 0.5; a non-empty string is never taken as true for being
\* non-empty.
C16_BoolCoercion ==
    (HelperReturned("_to_int01_bool") \/ HelperReturned("make_feature_row"))
    => /\ BoolCoerced \in {0, 1}
       /\ call.arg \in {RStr(<<"F", "a", "l", "s", "e">>), RStr(<<"f", "a", "l", "s", "e">>),
                       RStr(<<"0">>), RStr(<<"n", "o", "n">>)}
             => BoolCoerced = 0
       /\ call.arg \in {RStr(<<"T", "r", "u", "e">>), RStr(<<"1">>),
                       RStr(<<"o", "u", "i">>)}
             => BoolCoerced = 1
       /\ (call.arg.t = "str"
              /\ Lower(Strip(call.arg.s)) \notin (TrueWords \cup FalseWords))
             => BoolCoerced = 0
       /\ call.arg.t = "bool" => BoolCoerced = (IF call.arg.b THEN 1 ELSE 0)
       /\ call.arg.t = "num" => (BoolCoerced = 1 <=> AtLeastHalf(call.arg.f))

\* the non-empty string "False" was coerced to 0
C16_Witness ==
    /\ HelperReturned("_to_int01_bool")
    /\ call.arg = RStr(<<"F", "a", "l", "s", "e">>)
    /\ Get(call.ret) = 0

\* C17: numeric coercion yields a finite non-negative number for every input.
C17_FiniteNonNegative ==
    (HelperReturned("_to_float") \/ HelperReturned("make_feature_row"))
    => /\ IsFinite(NumCoerced)
       /\ NumCoerced.v >= 0

\* C18: GeoProxies.get never fails and returns two finite numbers.
C18_GeoNeverFails ==
    HelperReturned("GeoProxies.get")
    => /\ Get(call.ret).raised = ""
       /\ IsFinite(Get(call.ret).pair[1])
       /\ IsFinite(Get(call.ret).pair[2])


----------------------------------------------------------------------------
\* service.py : the lazily loaded estimators, with several request threads
\* inside compute_quote at once.  A thread can be suspended between any two
\* of: the test `_FREQ_MODEL is None`, the call of the loader, and the store
\* into the global.

NumThreads == 2
Threads == 1..NumThreads

\* the module globals and, for the process, how often each loader ran and
\* how often each global was assigned
FreshModels ==
    [_FREQ_MODEL |-> None, _SEV_MODEL |-> None,
     loads   |-> [freq |-> 0, sev |-> 0, unc |-> 0],
     assigns |-> [freq |-> 0, sev |-> 0]]

IdleThread == [pc |-> "idle", loaded |-> 0]

\* what a request thread computes with, untouched by the loading steps
RequestState ==
    <<pc, profile, risk, env, decision, search, offer, resp, error, entry, call, db>>

\* a request enters compute_quote
EnterQuote ==
    \E t \in Threads :
      /\ threads[t].pc = "idle"
      /\ threads' = [threads EXCEPT ![t].pc = "freq_check"]
      /\ UNCHANGED models
      /\ UNCHANGED RequestState

\* _get_freq_model: if _FREQ_MODEL is None
FreqCheck ==
    \E t \in Threads :
      /\ threads[t].pc = "freq_check"
      /\ threads' = [threads EXCEPT
                       ![t].pc = IF IsNone(models._FREQ_MODEL)
                                 THEN "freq_load" ELSE "sev_check"]
      /\ UNCHANGED models
      /\ UNCHANGED RequestState

\* load_frequency_model() returns a new object
FreqLoad ==
    \E t \in Threads :
      /\ threads[t].pc = "freq_load"
      /\ models' = [models EXCEPT !.loads.freq = @ + 1]
      /\ threads' = [threads EXCEPT ![t].pc = "freq_store",
                                    ![t].loaded = models.loads.freq + 1]
      /\ UNCHANGED RequestState

\* _FREQ_MODEL = <the object>
FreqStore ==
    \E t \in Threads :
      /\ threads[t].pc = "freq_store"
      /\ models' = [models EXCEPT !._FREQ_MODEL = Some(threads[t].loaded),
                                  !.assigns.freq = @ + 1]
      /\ threads' = [threads EXCEPT ![t].pc = "sev_check"]
      /\ UNCHANGED RequestState

\* _get_sev_model: if _SEV_MODEL is None
SevCheck ==
    \E t \in Threads :
      /\ threads[t].pc = "sev_check"
      /\ threads' = [threads EXCEPT
                       ![t].pc = IF IsNone(models._SEV_MODEL)
                                 THEN "sev_load" ELSE "unc"]
      /\ UNCHANGED models
      /\ UNCHANGED RequestState

SevLoad ==
    \E t \in Threads :
      /\ threads[t].pc = "sev_load"
      /\ models' = [models EXCEPT !.loads.sev = @ + 1]
      /\ threads' = [threads EXCEPT ![t].pc = "sev_store",
                                    ![t].loaded = models.loads.sev + 1]
      /\ UNCHANGED RequestState

SevStore ==
    \E t \in Threads :
      /\ threads[t].pc = "sev_store"
      /\ models' = [models EXCEPT !._SEV_MODEL = Some(threads[t].loaded),
                                  !.assigns.sev = @ + 1]
      /\ threads' = [threads EXCEPT ![t].pc = "unc"]
      /\ UNCHANGED RequestState

\* UncertaintyService().predict(profile): a new service object per request,
\* whose _art is None, so load() reads the artifacts again
UncLoad ==
    \E t \in Threads :
      /\ threads[t].pc = "unc"
      /\ models' = [models EXCEPT !.loads.unc = @ + 1]
      /\ threads' = [threads EXCEPT ![t].pc = "rest"]
      /\ UNCHANGED RequestState

LoadInit ==
    /\ entry = "serve"
    /\ pc = "serve"
    /\ models = FreshModels
    /\ threads = [t \in Threads |-> IdleThread]
    /\ db = NoDb
    /\ call = NoCall
    /\ profile = MakeProfile("grocery", FALSE, 0, FALSE, FALSE, FALSE, None)
    /\ risk = NoRisk
    /\ env = NoEnv
    /\ decision = NoDecision
    /\ search = NoSearch
    /\ offer = NoOffer
    /\ resp = NoResp
    /\ error = ""

LoadNext ==
    \/ EnterQuote
    \/ FreqCheck
    \/ FreqLoad
    \/ FreqStore
    \/ SevCheck
    \/ SevLoad
    \/ SevStore
    \/ UncLoad

LoadSpec == LoadInit /\ [][LoadNext]_vars

\* C19: each estimator's artifacts are loaded at most once in the process,
\* and a cached reference is assigned at most once.
C19_LoadedAtMostOnce ==
    entry = "serve" =>
       /\ models.loads.freq <= 1
       /\ models.loads.sev <= 1
       /\ models.loads.unc <= 1
       /\ models.assigns.freq <= 1
       /\ models.assigns.sev <= 1


----------------------------------------------------------------------------
\* Properties of the deductible

SecurityFlags == {"security_alarm", "security_camera", "fire_extinguisher"}

\* the profile with one security boolean switched on
WithFeature(prof, flag) == [prof EXCEPT ![flag] = TRUE]

\* build_offer has computed the deductible of the state's profile
DeductibleComputed == entry = "build_offer" /\ pc = "budget"

\* C20: for every template, switching one security boolean of the profile
\* from false to true, all else equal, never increases the deductible of
\* compute_franchise.
C20_SecurityNeverRaisesDeductible ==
    entry = "build_offer" =>
       /\ \A tid \in TemplateIds : \A flag \in SecurityFlags :
             ~profile[flag] =>
                compute_franchise(WithFeature(profile, flag), TEMPLATES[tid], risk)
                   <= compute_franchise(profile, TEMPLATES[tid], risk)
       /\ DeductibleComputed =>
             search.franchise = compute_franchise(profile, ChosenTemplate, risk)

\* a profile without camera whose deductible, as build_offer computed it, is
\* strictly above the one the same profile gets with a camera
C20_Witness ==
    /\ DeductibleComputed
    /\ ~profile.security_camera
    /\ compute_franchise(WithFeature(profile, "security_camera"), ChosenTemplate, risk)
          < search.franchise


----------------------------------------------------------------------------
\* Breakdown of the offer

\* an Offer has been built by build_offer
OfferBuilt == offer # NoOffer

\* the search loop of apply_budget_constraint ran at least one pass
SearchRan == search.done >= 1

\* C21: in every offer, on every budget path, the breakdown reconstructs the
\* premium: premium = max(premium_raw, min_premium_value), premium_raw =
\* expected_loss_adjusted * (1 + expense_margin) + fixed_fee,
\* expected_loss_adjusted = base_expected_loss * deductible_factor *
\* limit_factor, base_expected_loss = p_claim * expected_cost,
\* min_premium_applied is 1 exactly when premium_raw < min_premium_value, and
\* the two factors are those of the final deductible and limit of the offer.
C21_BreakdownReconstructsPremium ==
    OfferBuilt =>
        LET b == offer.breakdown
            t == TEMPLATES[offer.template_id]
        IN  /\ offer.prime_annuelle_tnd = Max2(b.premium_raw, b.min_premium_value)
            /\ b.premium_raw =
                 (b.expected_loss_adjusted * (100 + b.expense_margin)) \div 100
                 + b.fixed_fee
            /\ b.expected_loss_adjusted =
                 (((b.base_expected_loss * b.deductible_factor) \div 1000)
                  * b.limit_factor) \div 1000
            /\ b.base_expected_loss = (b.p_claim * b.expected_cost) \div 10
            /\ b.min_premium_applied = 1 <=> b.premium_raw < b.min_premium_value
            /\ b.min_premium_applied \in {0, 1}
            /\ b.deductible_factor =
                 (TND(2000) * 1000) \div (TND(2000) + offer.franchise_tnd)
            /\ b.limit_factor =
                 Clamp(1000 + ((offer.plafond_tnd - t.plafond_base_tnd) * 100)
                                  \div Max2(t.plafond_base_tnd, TND(1)),
                       900, 1200)

\* an offer built after the search changed both the deductible and the limit,
\* whose factors differ from those of the terms the search started from
C21_Witness ==
    /\ OfferBuilt
    /\ SearchRan
    /\ offer.franchise_tnd # search.franchise
    /\ offer.plafond_tnd # search.plafond
    /\ offer.breakdown.deductible_factor # DeductibleFactor(search.franchise)
    /\ offer.breakdown.min_premium_applied = 0

----------------------------------------------------------------------------
\* Audit of the response

\* the reasons the caller receives contain  code:arg
ResponseHasReasonArg(r, code, arg) ==
    \E i \in 1..Len(r.decision.reasons) :
        r.decision.reasons[i] = [code |-> code, arg |-> arg]

\* C22: every response of compute_quote has a breakdown p_claim within [0, 1]
\* and reasons that contain frequency_model:logreg_calibrated_v1.
C22_FrequencyModelIsCalibrated ==
    Responded =>
        /\ InBreakdown(resp, "p_claim")
        /\ resp.offer.breakdown.p_claim \in 0..1000
        /\ ResponseHasReasonArg(resp, "frequency_model", "logreg_calibrated_v1")

\* C23: every response breakdown has an uncertainty_score within [0, 1], on
\* the fallback path as well, and an uncertainty_buffer entry (a buffer that
\* is ordered like the score across responses).
C23_UncertaintyScoreAndBuffer ==
    Responded =>
        /\ InBreakdown(resp, "uncertainty_score")
        /\ resp.offer.breakdown.uncertainty_score \in 0..1000
        /\ InBreakdown(resp, "uncertainty_buffer")

----------------------------------------------------------------------------
\* Scores of the selector

\* the score the documented rules give a candidate, in tenths
DocumentedScore(tid, prof, rk) ==
      (IF rk.cluster_hint_template_id = {tid} THEN 15 ELSE 0)
    + (IF prof.open_at_night /\ tid = "T3_NIGHT" THEN 20 ELSE 0)
    + (IF (prof.assets_value_tnd >= 80000 \/ HighValueActivity(prof.activity_type))
          /\ tid = "T2_PLUS" THEN 15 ELSE 0)
    + (IF rk.p_claim > 150 /\ tid \in {"T2_PLUS", "T3_NIGHT"} THEN 4 ELSE 0)
    + (IF rk.uncertainty_score > 700 /\ tid = "T1_ESSENTIEL" THEN 3 ELSE 0)

\* C24: for every profile and risk with an eligible template, the score of
\* each candidate is the sum of the documented increments: +1.5 hint, +2.0
\* night template at night, +1.5 extended template on high exposure, +0.4
\* extended and night templates when p_claim > 0.15, +0.3 basic template when
\* the uncertainty score > 0.70.
C24_ScoresAreDocumentedSums ==
    (Selected /\ Candidates(profile) # <<>>) =>
        \A tid \in CandidateSet(profile) :
            Score(tid, profile, risk) = DocumentedScore(tid, profile, risk)

----------------------------------------------------------------------------
\* Order of the reason codes

RuleCodeOrder ==
    <<"rule_cluster_profile_hint", "rule_open_at_night",
      "rule_high_exposure_assets_or_activity", "rule_high_frequency",
      "rule_high_uncertainty">>

SummaryCodes ==
    {"chosen_essential_template", "chosen_plus_template", "chosen_night_template"}

\* position of a rule code in the fixed order (0: not a rule code)
RuleRank(code) ==
    IF \E i \in 1..Len(RuleCodeOrder) : RuleCodeOrder[i] = code
    THEN CHOOSE i \in 1..Len(RuleCodeOrder) : RuleCodeOrder[i] = code
    ELSE 0

\* the rule of the code changed the score of at least one candidate
RuleChangedScore(code, prof, rk) ==
    CASE code = "rule_cluster_profile_hint" -> HintFires(prof, rk)
      [] code = "rule_open_at_night" -> NightFires(prof)
      [] code = "rule_high_exposure_assets_or_activity" -> ExposureFires(prof)
      [] code = "rule_high_frequency" ->
            \E tid \in CandidateSet(prof) :
                Score(tid, prof, rk) # Score(tid, prof, [rk EXCEPT !.p_claim = 0])
      [] code = "rule_high_uncertainty" ->
            \E tid \in CandidateSet(prof) :
                Score(tid, prof, rk)
                    # Score(tid, prof, [rk EXCEPT !.uncertainty_score = 0])
      [] OTHER -> FALSE

\* the rule codes come in the fixed order, each at most once, and one summary
\* code of the chosen template closes the list
OrderedRuleReasons(dec) ==
    LET n == Len(dec.reasons)
    IN  /\ n >= 1
        /\ dec.reasons[n].code = SummaryReason(dec.template_id)
        /\ \A i \in 1..(n - 1) : RuleRank(dec.reasons[i].code) > 0
        /\ \A i, j \in 1..(n - 1) :
              i < j => RuleRank(dec.reasons[i].code) < RuleRank(dec.reasons[j].code)

\* C25: in every non-fallback decision the codes of the rules appear in the
\* fixed order (hint, night, exposure, frequency, uncertainty), each at most
\* once and only when its rule changed a candidate's score, followed by
\* exactly one summary code of the chosen template family; compute_quote only
\* appends its audit codes after them.
C25_ReasonsFollowTheRules ==
    (Responded /\ decision.candidates # <<>>) =>
        /\ OrderedRuleReasons(decision)
        /\ \A i \in 1..(Len(decision.reasons) - 1) :
              RuleChangedScore(decision.reasons[i].code, profile, risk)
        /\ SubSeq(resp.decision.reasons, 1, Len(decision.reasons)) = decision.reasons
        /\ \A i \in (Len(decision.reasons) + 1)..Len(resp.decision.reasons) :
              /\ RuleRank(resp.decision.reasons[i].code) = 0
              /\ resp.decision.reasons[i].code \notin SummaryCodes

\* the condition of the rule of the code holds on the profile and the risk
RuleConditionHolds(code, prof, rk) ==
    CASE code = "rule_cluster_profile_hint" ->
            \E tid \in CandidateSet(prof) : rk.cluster_hint_template_id = {tid}
      [] code = "rule_open_at_night" ->
            prof.open_at_night /\ "T3_NIGHT" \in CandidateSet(prof)
      [] code = "rule_high_exposure_assets_or_activity" ->
            /\ prof.assets_value_tnd >= 80000 \/ HighValueActivity(prof.activity_type)
            /\ "T2_PLUS" \in CandidateSet(prof)
      [] code = "rule_high_frequency" -> rk.p_claim > 150
      [] code = "rule_high_uncertainty" -> rk.uncertainty_score > 700
      [] OTHER -> FALSE

\* C25 (amended): in every non-fallback decision the codes of the rules appear
\* in the fixed order, each at most once and exactly when the condition of its
\* rule holds (for the frequency and the uncertainty rule: the threshold is
\* exceeded, whether or not a candidate's score changed), followed by exactly
\* one summary code of the chosen template family; compute_quote only appends
\* its audit codes after them.
C25_ReasonsFollowTheConditions ==
    (Responded /\ decision.candidates # <<>>) =>
        /\ OrderedRuleReasons(decision)
        /\ \A i \in 1..Len(RuleCodeOrder) :
              DecisionHasReason(decision, RuleCodeOrder[i])
                  <=> RuleConditionHolds(RuleCodeOrder[i], profile, risk)
        /\ SubSeq(resp.decision.reasons, 1, Len(decision.reasons)) = decision.reasons
        /\ \A i \in (Len(decision.reasons) + 1)..Len(resp.decision.reasons) :
              /\ RuleRank(resp.decision.reasons[i].code) = 0
              /\ resp.decision.reasons[i].code \notin SummaryCodes

\* a response whose decision lists the frequency and the uncertainty code
\* before the summary code, while neither rule changed a score
C25_Witness ==
    /\ Responded
    /\ Len(decision.reasons) = 3
    /\ ~RuleChangedScore("rule_high_uncertainty", profile, risk)
    /\ DecisionHasReason(decision, "rule_high_frequency")
    /\ DecisionHasReason(decision, "rule_high_uncertainty")
    /\ ~RuleChangedScore("rule_high_frequency", profile, risk)
    /\ Len(resp.decision.reasons) > Len(decision.reasons)

----------------------------------------------------------------------------
\* Bounds of the limit and the deductible

WithinLimitBounds(t, plafond) ==
    t.plafond_min_tnd <= plafond /\ plafond <= t.plafond_max_tnd

WithinDeductibleBounds(t, franchise) ==
    t.franchise_min_tnd <= franchise /\ franchise <= t.franchise_max_tnd

\* the offer of build_offer keeps the template's bounds; without a search the
\* limit is clamp(max(base_limit, 0.5 * assets), min_limit, max_limit)
OfferWithinBounds ==
    OfferBuilt =>
        LET t == TEMPLATES[offer.template_id]
        IN  /\ WithinLimitBounds(t, offer.plafond_tnd)
            /\ WithinDeductibleBounds(t, offer.franchise_tnd)
            /\ ~SearchRan =>
                  offer.plafond_tnd =
                     Clamp(Max2(t.plafond_base_tnd, (TND(profile.assets_value_tnd)) \div 2),
                           t.plafond_min_tnd, t.plafond_max_tnd)

\* the locals of the search of build_offer keep the bounds at every pass
SearchWithinBounds ==
    (entry = "build_offer" /\ pc \in {"search", "adjusted"}) =>
        /\ WithinLimitBounds(ChosenTemplate, search.cur_plaf)
        /\ WithinDeductibleBounds(ChosenTemplate, search.cur_fran)

\* a pass of the search never lowers the deductible and never raises the limit
SearchPassIsMonotone ==
    pc = "search" =>
        /\ search'.cur_fran >= search.cur_fran
        /\ search'.cur_plaf <= search.cur_plaf

\* C26: the final limit of every offer lies within [min_limit, max_limit] of
\* its template and the final deductible within [min_deductible,
\* max_deductible], without budget adjustment (limit = clamp(max(base_limit,
\* 0.5 * assets), min_limit, max_limit)) and after any number of passes of the
\* search; during the search the deductible never decreases and the limit
\* never increases.
C26_TermsStayWithinBounds ==
    /\ [](OfferWithinBounds /\ SearchWithinBounds)
    /\ [][SearchPassIsMonotone]_vars

\* an offer built after several passes that moved both terms, one of them
\* up to its bound
C26_Witness ==
    /\ OfferBuilt
    /\ search.done >= 3
    /\ offer.franchise_tnd > search.franchise
    /\ offer.plafond_tnd < search.plafond
    /\ \/ offer.franchise_tnd = TEMPLATES[offer.template_id].franchise_max_tnd
       \/ offer.plafond_tnd = TEMPLATES[offer.template_id].plafond_min_tnd

----------------------------------------------------------------------------
\* Security features of the request

SecurityFields == {"has_alarm", "has_camera", "has_extinguisher"}

\* the request with one security feature switched off
WithoutFeature(req, f) == [req EXCEPT !.security[f] = FALSE]

\* the deductible of compute_franchise before its clamp, for the request
RequestDeductibleRaw(req, t, rk) == FranchiseRaw(RequestProfile(req), t, rk)

\* C27: in a quote computed by compute_quote every security feature that is
\* active in the request lowers the deductible before clamping: the request
\* with the feature gets a lower pre-clamp deductible than the same request
\* without it.
C27_RequestFeatureLowersDeductible ==
    Responded =>
        \A req \in QuoteRequests :
            RequestProfile(req) = profile =>
                \A f \in SecurityFields :
                    req.security[f] =>
                        RequestDeductibleRaw(req, ChosenTemplate, risk)
                            < RequestDeductibleRaw(WithoutFeature(req, f),
                                                   ChosenTemplate, risk)

----------------------------------------------------------------------------
\* Flags of the offer inside compute_quote

\* C28: for every quote computed through compute_quote, whatever the
\* frequency estimator returns, the high_risk flag the engine evaluates is
\* false: p_claim is clamped to at most 0.25 before pricing and the flag
\* requires p_claim strictly above 0.25.
C28_HighRiskNeverRaised ==
    (entry = "compute_quote" /\ OfferBuilt) =>
        /\ risk.p_claim <= 250
        /\ ~offer.flags.high_risk

\* an offer priced after the frequency estimator returned 0.9, clamped to 0.25
C28_Witness ==
    /\ entry = "compute_quote"
    /\ OfferBuilt
    /\ env.freq_out = Some(Fin(900))
    /\ risk.p_claim = 250
    /\ offer.breakdown.p_claim = 250

----------------------------------------------------------------------------
\* api/db/models.py, api/db/crud.py, api/routes/requests.py : stored requests

MaxRequests == 2

\* the ids uuid.uuid4() gives the rows
RequestIds == 1..MaxRequests

\* class QuoteStatus
PENDING     == "PENDING"
AI_PROPOSED == "AI_PROPOSED"
PROCESSED   == "PROCESSED"
REJECTED    == "REJECTED"

UpperChar(c) ==
    IF \E i \in 1..Len(LowerLetters) : LowerLetters[i] = c
    THEN UpperLetters[CHOOSE i \in 1..Len(LowerLetters) : LowerLetters[i] = c]
    ELSE c

\* str.upper()
Upper(s) == [i \in 1..Len(s) |-> UpperChar(s[i])]

ACCEPT == <<"A","C","C","E","P","T">>
MODIFY == <<"M","O","D","I","F","Y">>
REJECT == <<"R","E","J","E","C","T">>

\* json.dumps(d) of a dict: a non-empty text;  json.loads gives the dict back
JsonDumps(d) == [text |-> d]
JsonLoads(s) == s.text

\* the dicts the calls hand over: request payloads, quote responses, offers
EmptyDict == [keys |-> 0]
PayloadDicts == {[keys |-> 9]}
QuoteDicts == {[keys |-> 2]}
OfferDicts == {EmptyDict, [keys |-> 7]}

Insureds == {"demo_user"}
Assureurs == {"demo_assureur"}
NoteTexts == {"ok"}

\* the action strings a caller passes
ActionInputs ==
    {ACCEPT, <<"m","o","d","i","f","y">>, <<" ">> \o REJECT, <<"c","a","n","c","e","l">>}

\* QuoteRequestORM(...) of create_request; the three DateTime columns hold the
\* wall clock and are not represented
NewRow(insured_id, request_payload) ==
    [insured_id |-> insured_id,
     status |-> PENDING,
     request_json |-> JsonDumps(request_payload),
     ai_quote_json |-> None,
     final_offer_json |-> None,
     processed_by |-> None,
     notes |-> None]

\* the assignments of set_ai_quote on the row
SetAiQuoteRow(obj, quote_response) ==
    [obj EXCEPT !.ai_quote_json = Some(JsonDumps(quote_response)),
                !.status = AI_PROPOSED]

\* the assignments of finalize_request made before the action is looked at
ProcessedRow(obj, processed_by, notes) ==
    [obj EXCEPT !.processed_by = Some(processed_by), !.notes = notes]

\* finalize_request raises ValueError("final_offer_required")
FinalOfferRequired(action, final_offer) ==
    Strip(Upper(action)) # REJECT /\ IsNone(final_offer)

\* (variant: a rejection keeps the final offer that is stored)
FinalizeRow_RejectKeepsOffer(obj, action, final_offer, processed_by, notes) ==
    LET o == ProcessedRow(obj, processed_by, notes)
    IN  IF Strip(Upper(action)) = REJECT
        THEN [o EXCEPT !.status = REJECTED]
        ELSE [o EXCEPT !.status = PROCESSED,
                       !.final_offer_json = Some(JsonDumps(Get(final_offer)))]

\* the row finalize_request commits when it does not raise
FinalizeRow(obj, action, final_offer, processed_by, notes) ==
    LET o == ProcessedRow(obj, processed_by, notes)
    IN  IF Strip(Upper(action)) = REJECT
        THEN [o EXCEPT !.status = REJECTED, !.final_offer_json = None]
        ELSE [o EXCEPT !.status = PROCESSED,
                       !.final_offer_json = Some(JsonDumps(Get(final_offer)))]

\* safe_load of orm_to_public: json.loads(s) if s else None
safe_load(s) == IF IsNone(s) THEN None ELSE Some(JsonLoads(Get(s)))

orm_to_public(obj) ==
    [insured_id |-> obj.insured_id,
     status |-> obj.status,
     request |-> safe_load(Some(obj.request_json)),
     ai_quote |-> safe_load(obj.ai_quote_json),
     final_offer |-> safe_load(obj.final_offer_json),
     processed_by |-> obj.processed_by,
     notes |-> obj.notes]

\* db with the row of one id replaced or added
WithRow(id, obj) == [i \in DOMAIN db \cup {id} |-> IF i = id THEN obj ELSE db[i]]

\* the other variables of a call on the table
CrudUnchanged ==
    UNCHANGED <<pc, profile, risk, env, decision, search, offer, resp, entry,
                models, threads>>

\* crud.create_request (the route create_new_request calls nothing else)
create_request ==
    /\ entry = "requests"
    /\ \E id \in RequestIds \ DOMAIN db, insured_id \in Insureds,
          request_payload \in PayloadDicts :
          /\ db' = WithRow(id, NewRow(insured_id, request_payload))
          /\ call' = [fn |-> "create_request", request_id |-> id]
    /\ error' = ""
    /\ CrudUnchanged

\* crud.set_ai_quote
set_ai_quote ==
    /\ entry = "requests"
    /\ \E request_id \in RequestIds, quote_response \in QuoteDicts :
          /\ call' = [fn |-> "set_ai_quote", request_id |-> request_id]
          /\ IF request_id \notin DOMAIN db
             THEN /\ error' = "request_not_found"
                  /\ UNCHANGED db
             ELSE /\ db' = WithRow(request_id,
                                   SetAiQuoteRow(db[request_id], quote_response))
                  /\ error' = ""
    /\ CrudUnchanged

\* crud.finalize_request; when it raises after its first assignments, the
\* session either drops them or still holds them for the next statement
finalize_request ==
    /\ entry = "requests"
    /\ \E request_id \in RequestIds, action \in ActionInputs,
          final_offer \in {None} \cup {Some(d) : d \in OfferDicts},
          processed_by \in Assureurs,
          notes \in {None} \cup {Some(n) : n \in NoteTexts} :
          /\ call' = [fn |-> "finalize_request", request_id |-> request_id]
          /\ IF request_id \notin DOMAIN db
             THEN /\ error' = "request_not_found"
                  /\ UNCHANGED db
             ELSE IF FinalOfferRequired(action, final_offer)
             THEN /\ error' = "final_offer_required"
                  /\ \/ UNCHANGED db
                     \/ db' = WithRow(request_id,
                                      ProcessedRow(db[request_id], processed_by, notes))
             ELSE /\ db' = WithRow(request_id,
                                   FinalizeRow(db[request_id], action, final_offer,
                                               processed_by, notes))
                  /\ error' = ""
    /\ CrudUnchanged

\* route POST /requests/{request_id}/ai_offer: compute_quote on the stored
\* payload either raises or returns the response that set_ai_quote stores
generate_ai_offer ==
    /\ entry = "requests"
    /\ \E request_id \in RequestIds, raises \in BOOLEAN, quote_resp \in QuoteDicts :
          /\ call' = [fn |-> "generate_ai_offer", request_id |-> request_id]
          /\ IF request_id \notin DOMAIN db
             THEN /\ error' = "404 request_not_found"
                  /\ UNCHANGED db
             ELSE IF raises
             THEN /\ error' = "500"
                  /\ UNCHANGED db
             ELSE /\ db' = WithRow(request_id,
                                   SetAiQuoteRow(db[request_id], quote_resp))
                  /\ error' = ""
    /\ CrudUnchanged

\* route POST /requests/{request_id}/finalize
finalize ==
    /\ entry = "requests"
    /\ \E request_id \in RequestIds, body_action \in ActionInputs,
          final_offer \in {None} \cup {Some(d) : d \in OfferDicts},
          processed_by \in Assureurs,
          notes \in {None} \cup {Some(n) : n \in NoteTexts} :
          LET action == Strip(Upper(body_action))
          IN  /\ call' = [fn |-> "finalize", request_id |-> request_id]
              /\ IF action \notin {ACCEPT, MODIFY, REJECT}
                 THEN /\ error' = "400 invalid_action"
                      /\ UNCHANGED db
                 ELSE IF request_id \notin DOMAIN db
                 THEN /\ error' = "400 request_not_found"
                      /\ UNCHANGED db
                 ELSE IF FinalOfferRequired(action, final_offer)
                 THEN /\ error' = "400 final_offer_required"
                      /\ UNCHANGED db
                 ELSE /\ db' = WithRow(request_id,
                                       FinalizeRow(db[request_id], action, final_offer,
                                                   processed_by, notes))
                      /\ error' = ""
    /\ CrudUnchanged

CrudInit ==
    /\ entry = "requests"
    /\ pc = "idle"
    /\ profile = MakeProfile("grocery", FALSE, 0, FALSE, FALSE, FALSE, None)
    /\ risk = NoRisk
    /\ env = NoEnv
    /\ decision = NoDecision
    /\ search = NoSearch
    /\ offer = NoOffer
    /\ resp = NoResp
    /\ error = ""
    /\ call = NoCall
    /\ models = NoModels
    /\ threads = NoThreads
    /\ db = NoDb

CrudNext ==
    \/ create_request
    \/ set_ai_quote
    \/ finalize_request
    \/ generate_ai_offer
    \/ finalize

CrudSpec == CrudInit /\ [][CrudNext]_vars

----------------------------------------------------------------------------
\* Stored requests

StoredIds == DOMAIN db

FinalOfferStored(obj) ==
    ~IsNone(obj.final_offer_json) /\ ~IsNone(orm_to_public(obj).final_offer)

AiQuoteStored(obj) ==
    ~IsNone(obj.ai_quote_json) /\ ~IsNone(orm_to_public(obj).ai_quote)

StatusRank(status) ==
    CASE status = PENDING -> 0
      [] status = AI_PROPOSED -> 1
      [] OTHER -> 2

Finalized(obj) == obj.status \in {PROCESSED, REJECTED}

\* C30: the status only moves forward PENDING -> AI_PROPOSED -> PROCESSED or
\* REJECTED: once a request is PROCESSED or REJECTED no later call of the
\* ai_offer or finalize operations changes its status or its stored final
\* offer, and a request is never finalized before an AI quote was stored.
C30_StatusOnlyMovesForward ==
    [][(generate_ai_offer \/ finalize) =>
         \A id \in StoredIds :
            /\ StatusRank(db'[id].status) >= StatusRank(db[id].status)
            /\ Finalized(db[id]) =>
                  /\ db'[id].status = db[id].status
                  /\ db'[id].final_offer_json = db[id].final_offer_json
            /\ (Finalized(db'[id]) /\ ~Finalized(db[id])) => AiQuoteStored(db[id])]_vars
=============================================================================
